---------------------------- MODULE Spec2Model ----------------------------
(***************************************************************************)
(* Model of the LangGraph address-validation orchestrator                  *)
(* (src/utils/validator_agent.py, class AddressValidatorAgent) together    *)
(* with the collaborator wrappers whose return shapes it branches on       *)
(* (src/core/gmaps_integration.py, src/core/database_client.py,            *)
(* src/utils/psgc_api_client.py, src/utils/philatlas_client.py).           *)
(*                                                                         *)
(* One request is modelled: `state` is the ValidationState channel values  *)
(* of the graph, `pc` the node that runs next.  Every node is one action;  *)
(* the responses of the collaborators are drawn with \E from the finite    *)
(* sets below.  Strings that the code only compares or copies are TLA+     *)
(* strings; str.lower(), str.title() and _normalize_name are tables over   *)
(* the strings that occur.  PSGC codes are sequences of digits so that     *)
(* the slices code[:2] of the source can be computed.                      *)
(***************************************************************************)
EXTENDS Integers, Sequences, FiniteSets, TLC

(***************************************************************************)
(* Bounds of the model.                                                    *)
(***************************************************************************)
\* Longest delivery history a lookup returns in the model (the code asks the
\* store for at most `limit` = 3 rows, most recent first).
MaxRecords == 1
\* Longest delivery history in the calls of _check_delivery_history alone.
MaxHistory == 2

(***************************************************************************)
(* Strings: case conversion and name normalisation, as tables.             *)
(***************************************************************************)
\* str.lower() on the strings of the model.
Lower(s) ==
    CASE s = "NCR" -> "ncr"
      [] s = "Cavite" -> "cavite"
      [] s = "Metro Manila" -> "metro manila"
      [] s = "Bacoor" -> "bacoor"
      [] s = "City of Bacoor" -> "city of bacoor"
      [] s = "City Of Bacoor" -> "city of bacoor"
      [] s = "Quezon City" -> "quezon city"
      [] s = "Molino" -> "molino"
      [] s = "Molino I" -> "molino i"
      [] s = "Baco" -> "baco"
      [] s = "Bacolod City" -> "bacolod city"
      [] s = "Bacor" -> "bacor"
      [] s = "Barangay" -> "barangay"
      [] s = "Barangay 1" -> "barangay 1"
      [] s = "Barangay 12" -> "barangay 12"
      [] s = "Barangay 2" -> "barangay 2"
      [] s = "Barangay 3" -> "barangay 3"
      [] s = "Cavitte" -> "cavitte"
      [] s = "Cebu" -> "cebu"
      [] s = "City of San Jose" -> "city of san jose"
      [] s = "City of San Jose del Monte" -> "city of san jose del monte"
      [] s = "City of San Jose del Monte Bulacan" -> "city of san jose del monte bulacan"
      [] s = "Compostela Valley" -> "compostela valley"
      [] s = "Isidro" -> "isidro"
      [] s = "Municipality of San Jose" -> "municipality of san jose"
      [] s = "National Capital Region" -> "national capital region"
      [] s = "National Capital Region (NCR)" -> "national capital region (ncr)"
      [] s = "Ncr" -> "ncr"
      [] s = "Quezon Cty" -> "quezon cty"
      [] s = "San Isidro" -> "san isidro"
      [] s = "San Jose" -> "san jose"
      [] s = "San Jose City" -> "san jose city"
      [] s = "San-Isidro" -> "san-isidro"
      [] s = "Xyz" -> "xyz"
      [] OTHER -> s

\* str.title() on the strings of the model: every word capitalised, so
\* "City of Bacoor" becomes "City Of Bacoor".
Title(s) ==
    CASE s = "metro manila" -> "Metro Manila"
      [] s = "davao de oro" -> "Davao De Oro"
      [] s = "quezon city" -> "Quezon City"
      [] s = "city of manila" -> "City Of Manila"
      [] s = "city of makati" -> "City Of Makati"
      [] s = "city of pasig" -> "City Of Pasig"
      [] s = "city of taguig" -> "City Of Taguig"
      [] s = "taguig" -> "Taguig"
      [] s = "city of paranaque" -> "City Of Paranaque"
      [] s = "city of las pinas" -> "City Of Las Pinas"
      [] s = "city of muntinlupa" -> "City Of Muntinlupa"
      [] s = "NCR" -> "Ncr"
      [] s = "City of Bacoor" -> "City Of Bacoor"
      [] s = "City of San Jose del Monte" -> "City Of San Jose Del Monte"
      [] s = "National Capital Region (NCR)" -> "National Capital Region (Ncr)"
      [] OTHER -> s

\* PhilAtlasClient._normalize_name: lower-case, then strip one leading
\* administrative prefix.
strip_prefix(lowered) ==
    CASE lowered = "city of bacoor" -> "bacoor"
      [] OTHER -> lowered

\* _normalize_name(name): the prefix stripped from name.lower().
normalize_name(s) == strip_prefix(Lower(s))

\* Settings.PROVINCE_ALIASES
PROVINCE_ALIASES ==
    ("compostela valley" :> "davao de oro") @@
    ("ncr" :> "metro manila") @@
    ("national capital region" :> "metro manila")

\* Settings.CITY_ABBREVIATIONS
CITY_ABBREVIATIONS ==
    ("qc" :> "quezon city") @@ ("q.c." :> "quezon city") @@
    ("q.c" :> "quezon city") @@ ("manila" :> "city of manila") @@
    ("makati" :> "city of makati") @@ ("pasig" :> "city of pasig") @@
    ("taguig" :> "city of taguig") @@ ("bgc" :> "taguig") @@
    ("paranaque" :> "city of paranaque") @@
    ("las pinas" :> "city of las pinas") @@
    ("muntinlupa" :> "city of muntinlupa")

(***************************************************************************)
(* Reasons and suggestions.  The code builds them as f-strings and later   *)
(* tests them with `phrase in reason`; a reason is modelled as the record  *)
(* of its template (`kind`) and the values formatted into it, and          *)
(* Contains computes the substring test from the template's text.          *)
(***************************************************************************)
\* "We only validate Philippine addresses. The provided address appears to
\*  be from {country}."
NonPhReason(country) == [kind |-> "non_ph", comp |-> "", name |-> country]
\* "We only validate Philippine addresses. The provided address does not
\*  appear to be from the Philippines."
NonPhUnknownReason == [kind |-> "non_ph_unknown", comp |-> "", name |-> ""]
\* "{comp} '{name}' not found in PSGC API"
NotFoundPsgcReason(comp, name) ==
    [kind |-> "not_found_psgc", comp |-> comp, name |-> name]
\* "{comp} '{name}' not found in PSGC API or PhilAtlas"
NotFoundBothReason(comp, name) ==
    [kind |-> "not_found_psgc_or_philatlas", comp |-> comp, name |-> name]
\* "{comp} verified via PhilAtlas (not found in PSGC)"
VerifiedPhilAtlasReason(comp) ==
    [kind |-> "verified_philatlas", comp |-> comp, name |-> ""]
\* geocode_result["reason"]: "Unsupported Region Types on Geocoding API: .."
\* or "Unknown Error on Geocoding API: .."
GeocodeReason(text) == [kind |-> "geocode", comp |-> "", name |-> text]

\* `phrase in reason` for the phrases the code searches for.
Contains(reason, phrase) ==
    CASE phrase = "only validate Philippine addresses" ->
            reason.kind \in {"non_ph", "non_ph_unknown"}
      [] phrase = "not found in PSGC API" ->
            reason.kind \in {"not_found_psgc", "not_found_psgc_or_philatlas"}
      [] phrase = "not found" ->
            reason.kind \in {"not_found_psgc", "not_found_psgc_or_philatlas",
                             "verified_philatlas"}
      [] phrase \in {"Barangay", "Province"} ->
            /\ reason.kind \in {"not_found_psgc", "not_found_psgc_or_philatlas",
                                "verified_philatlas"}
            /\ reason.comp = phrase
      [] OTHER -> FALSE

\* any(phrase in reason for reason in reasons)
AnyContains(reasons, phrase) ==
    \E i \in 1..Len(reasons) : Contains(reasons[i], phrase)

\* `x in list`
InList(x, list) == \E i \in 1..Len(list) : list[i] = x


(***************************************************************************)
(* Collaborator responses.                                                 *)
(***************************************************************************)
\* A PSGC code is a sequence of digits; "" is the empty sequence.
NoCode == << >>

\* `None` from PSGCAPIClient.search_province / search_city_municipality /
\* search_barangay (no match, or the list could not be fetched).
NoMatch == [found |-> FALSE, name |-> "", code |-> NoCode, zip_code |-> ""]

\* Entries psgc.cloud returns for /provinces.
PsgcProvinces ==
    { [found |-> TRUE, name |-> "Cavite",
       code |-> <<0,4,2,1,0,0,0,0,0,0>>, zip_code |-> ""] }

\* Entries psgc.cloud returns for /cities-municipalities.
PsgcCities ==
    { [found |-> TRUE, name |-> "City of Bacoor",
       code |-> <<0,4,2,1,0,3,0,0,0,0>>, zip_code |-> "4102"] }

\* Entries psgc.cloud returns for the barangays of a city.
PsgcBarangays ==
    { [found |-> TRUE, name |-> "Molino I",
       code |-> <<0,4,2,1,0,3,0,2,9,0>>, zip_code |-> ""] }

\* What search_province can return for a non-empty name.
ProvinceMatches == {NoMatch} \cup PsgcProvinces
\* What search_city_municipality can return for a non-empty name.
CityMatches == {NoMatch} \cup PsgcCities
\* What search_barangay can return for a non-empty name.
BarangayMatches == {NoMatch} \cup PsgcBarangays

\* PhilAtlasClient.get_provinces(): the scraped list, or [] when the page
\* could not be fetched.
PhilAtlasProvinceLists ==
    { << >>,
      << [name |-> "Cavite", url |-> "/luzon/r04a/cavite.html"],
         [name |-> "Metro Manila", url |-> "/luzon/ncr.html"] >> }

\* PhilAtlasClient.get_cities_municipalities(url): the scraped list or [].
PhilAtlasCityLists ==
    { << >>, << [name |-> "Bacoor", url |-> "/luzon/r04a/cavite/bacoor.html"] >> }

\* PhilAtlasClient.get_barangays(url): the scraped list or [].
PhilAtlasBarangayLists ==
    { << >>, << [name |-> "Molino", url |-> ""] >> }

\* The positions of a list whose entry passes a test, as the set `hits`:
\* the first of them, 0 if there is none: a `for` loop or a next(...)
\* that stops at the first hit.
FirstHit(hits) ==
    IF hits = {} THEN 0 ELSE CHOOSE i \in hits : \A j \in hits : i <= j

\* next((p for p in entries if p['name'].lower() == name.lower() or
\*       _normalize_name(p['name']) == _normalize_name(name)), None):
\* the position of the first such entry, 0 for None.
PhilAtlasFind(entries, name) ==
    FirstHit({ i \in 1..Len(entries) :
                 \/ Lower(entries[i].name) = Lower(name)
                 \/ normalize_name(entries[i].name) = normalize_name(name) })

\* The three ways the injected philatlas_client can be set up: absent, the
\* PhilAtlasClient class of this repository (which defines no
\* get_barangay_postal_code), or a client that also answers that call.
PhilAtlasKinds == {"None", "PhilAtlasClient", "WithPostalLookup"}

\* What get_barangay_postal_code returns on a client that answers it: a
\* postal code or nothing.
PostalLookupResults == {"", "4102"}

\* GoogleMapsValidator.get_address_country(address): the dict it returns.
\* isValid is True (an accepted address, with its regionCode), "PH" or
\* "NOT_PH"; country is "" where the key is missing or empty.
AddrValidationResults ==
    { [isValid |-> "True", country |-> c] : c \in {"PH", "US", ""} } \cup
    { [isValid |-> "PH", country |-> "PH"] } \cup
    { [isValid |-> "NOT_PH", country |-> c] : c \in {"US", "PH", ""} }

\* GoogleMapsValidator.get_geocode(address, region): a failure with its
\* reason (no premise-like result, or an exception of the client), or the
\* components of the first premise-like result.  get_geocode always
\* returns barangay "".
GeocodeFailures ==
    { [isValid |-> FALSE, reason |-> r, city |-> "", barangay |-> "",
       postalCode |-> "", province |-> "", streetAddress |-> "",
       country |-> "", formattedAddress |-> "", latitude |-> 0,
       longitude |-> 0, place_id |-> ""] :
      r \in {"Unsupported Region Types on Geocoding API",
             "Unknown Error on Geocoding API"} }

GeocodeSuccesses ==
    { [isValid |-> TRUE, reason |-> "", city |-> c, barangay |-> "",
       postalCode |-> IF c = "" \/ ll = 0 THEN "" ELSE z,
       province |-> "Cavite",
       streetAddress |-> "12 Main St", country |-> "PH",
       formattedAddress |-> "12 Main St, Bacoor, Cavite, Philippines",
       latitude |-> ll, longitude |-> ll, place_id |-> "place-1"] :
      c \in {"", "Bacoor"}, z \in {"", "4100"}, ll \in {0, 14} }

GeocodeResults == GeocodeFailures \cup GeocodeSuccesses

\* db.get_province_details / get_city_details / get_barangay_details: {} or
\* the first matching row.
NoRow == [found |-> FALSE, region_id |-> NoCode, id |-> NoCode, postcode |-> ""]
ProvinceRows == { NoRow, [found |-> TRUE, region_id |-> <<4>>, id |-> <<2,1>>,
                          postcode |-> ""] }
CityRows == { NoRow, [found |-> TRUE, region_id |-> NoCode, id |-> <<3,0,3>>,
                      postcode |-> ""] }
BarangayRows == { NoRow, [found |-> TRUE, region_id |-> NoCode,
                          id |-> <<7,7,1>>, postcode |-> "4102"] }

\* Status values of delivery_history rows.
Statuses == {"DELIVERED", "RETURN TO SENDER", "IN TRANSIT"}

\* db.get_delivery_history(address): the rows, most recent first, or [].
Histories == UNION { [1..n -> Statuses] : n \in 0..MaxRecords }

\* AddressParser.parse(text): the ParsedAddress; a field the parser left
\* None is "" (the orchestrator stores `field or ""`).  A failed parse is
\* the record of five empty fields.
ParsedAddresses ==
    [province : {"", "Cavite", "NCR"}, city : {"", "Bacoor"},
     barangay : {"", "Molino"}, street_address : {"", "12 Main St"},
     postal_code : {"", "4102"}]

(***************************************************************************)
(* The ValidationState and the nodes of the graph.  Each node is an        *)
(* operator from the state it receives (and the responses of the calls it  *)
(* makes) to the state it returns.                                         *)
(***************************************************************************)
\* all([...]) / truthiness of a str: non-empty.
Truthy(x) == x # ""

\* A formatted text is the sequence of the parts joined with " "; the empty
\* string is the empty sequence.
NoText == << >>
Text(x) == IF x = "" THEN << >> ELSE << x >>

\* DeliveryHistoryResponse(): the two DeliveryHistoryAddress defaults.
NoDeliveryHistory == [inputStatus |-> "", formattedStatus |-> ""]

\* initial_state of AddressValidatorAgent.validate_address
initial_state ==
    [ validation_id |-> "uuid", original_address |-> "input",
      clean_address |-> "input",
      country |-> "PH", structure_ok |-> FALSE, psgc_matched |-> FALSE,
      geocode_matched |-> FALSE, psgc_api_validated |-> TRUE,
      delivery_history_success |-> 0,
      province |-> "", city |-> "", barangay |-> "", street_address |-> "",
      postal_code |-> "",
      province_code |-> NoCode, city_code |-> NoCode, barangay_code |-> NoCode,
      latitude |-> 0, longitude |-> 0, place_id |-> "",
      geocode_formatted_address |-> NoText,
      geocode_city |-> "", geocode_barangay |-> "", geocode_postal |-> "",
      region_id |-> NoCode, province_id |-> NoCode, city_id |-> NoCode,
      barangay_id |-> NoCode,
      formatted_address |-> NoText, confidence |-> 0,
      reasons |-> << >>, suggestions |-> << >>,
      delivery_history |-> NoDeliveryHistory,
      current_step |-> "initialize" ]

\* The reducer of the channels `reasons` and `suggestions`
\* (Annotated[List[str], add]): the graph stores add(current, returned).
\* Every node mutates the lists it was handed and returns them, so both
\* operands are the returned list.  Every other channel keeps the returned
\* value.
add_reducer(ret) ==
    [ret EXCEPT !.reasons = @ \o @, !.suggestions = @ \o @]

\* AddressValidatorAgent._format_ph_address
format_ph_address(st) ==
    Text(st.street_address) \o Text(st.barangay) \o Text(st.city) \o
    Text(st.province) \o Text(st.postal_code) \o << "PH" >>

\* The closing lines of _validate_psgc_api, _geocode_address and
\* _refine_with_geocode: with street, barangay, city and province present
\* the address is formatted and structure_ok set.
complete_structure(st) ==
    IF Truthy(st.street_address) /\ Truthy(st.barangay) /\ Truthy(st.city)
       /\ Truthy(st.province)
    THEN [st EXCEPT !.formatted_address = format_ph_address(st),
                    !.structure_ok = TRUE]
    ELSE st

\* AddressValidatorAgent._initialize_state
initialize_state(st) == [st EXCEPT !.current_step = "initialize"]

\* AddressValidatorAgent._validate_country; gmaps is `self.gmaps_validator`
\* being set, av the dict get_address_country returned.
validate_country(st, gmaps, av) ==
    LET s0 == [st EXCEPT !.current_step = "validate_country"]
        reject(s, country, reason) ==
            [s EXCEPT !.country = country,
                      !.reasons = Append(@, reason),
                      !.structure_ok = FALSE,
                      !.geocode_matched = FALSE,
                      !.psgc_matched = FALSE]
    IN  IF ~gmaps THEN [s0 EXCEPT !.country = "PH"]
        ELSE CASE av.isValid = "True" ->
                    reject(s0, av.country, NonPhReason(av.country))
               [] av.isValid = "PH" -> [s0 EXCEPT !.country = "PH"]
               [] av.isValid = "NOT_PH" ->
                    IF Truthy(av.country)
                    THEN reject(s0, av.country, NonPhReason(av.country))
                    ELSE reject(s0, "Unknown", NonPhUnknownReason)
               [] OTHER -> [s0 EXCEPT !.country = av.country]

\* AddressValidatorAgent._apply_aliases
apply_aliases(parsed) ==
    LET p1 == IF Truthy(parsed.province)
                 /\ Lower(parsed.province) \in DOMAIN PROVINCE_ALIASES
              THEN [parsed EXCEPT
                      !.province = Title(PROVINCE_ALIASES[Lower(parsed.province)])]
              ELSE parsed
    IN  IF Truthy(p1.city) /\ Lower(p1.city) \in DOMAIN CITY_ABBREVIATIONS
        THEN [p1 EXCEPT !.city = Title(CITY_ABBREVIATIONS[Lower(p1.city)])]
        ELSE p1

\* AddressValidatorAgent._parse_address; parsed is what the parser returned.
parse_address(st, parsed) ==
    LET a == apply_aliases(parsed)
    IN  [st EXCEPT !.current_step = "parse_address",
                   !.province = a.province, !.city = a.city,
                   !.barangay = a.barangay,
                   !.street_address = a.street_address,
                   !.postal_code = a.postal_code]

\* AddressValidatorAgent._apply_typo_corrections.  apply_corrections
\* returns the pair (parsed_address, suggestions); the node reads
\* `corrected.province` of that pair, which raises AttributeError inside
\* the try block, and the handler logs it: no field but current_step is
\* written.
apply_typo_corrections(st) ==
    [st EXCEPT !.current_step = "apply_typo_corrections"]

\* The province_url / city_url lookups of the PhilAtlas fallback: the url
\* of the first entry matching `name`, "" for None.
url_of(entries, hit) == IF hit # 0 THEN entries[hit].url ELSE ""

PhilAtlasUrl(entries, name) ==
    url_of(entries, IF Truthy(name) THEN PhilAtlasFind(entries, name) ELSE 0)

\* validate_component asking PhilAtlas first and the PSGC API only when
\* PhilAtlas has no entry.
validate_component_philatlas_first(acc, comp, field, code_field, match, fallback, entries) ==
    LET st == acc.st
        name == st[field]
        hit == PhilAtlasFind(entries, name)
        reason == IF fallback THEN NotFoundBothReason(comp, name)
                  ELSE NotFoundPsgcReason(comp, name)
    IN  IF ~Truthy(name) THEN acc
        ELSE IF fallback /\ hit # 0
        THEN [acc EXCEPT !.st = [st EXCEPT ![field] = Title(entries[hit].name)],
                         !.philatlas_used = TRUE,
                         !.new_reasons =
                             Append(@, VerifiedPhilAtlasReason(comp))]
        ELSE IF match.found
        THEN [acc EXCEPT !.st = [st EXCEPT ![field] = Title(match.name),
                                           ![code_field] = match.code]]
        ELSE [acc EXCEPT !.st = [st EXCEPT ![field] = Title(name)],
                         !.psgc_api_valid = FALSE,
                         !.new_reasons =
                             IF InList(reason, st.reasons) THEN @
                             ELSE Append(@, reason)]

\* One component of _validate_psgc_api (province, city or barangay).  acc
\* carries the state and the locals psgc_api_valid, philatlas_used and
\* new_reasons; field and code_field name the state keys written, `match`
\* is the PSGC search result, `fallback` tells whether
\* the PhilAtlas branch is taken and `entries` the PhilAtlas list searched.
validate_component(acc, comp, field, code_field, match, fallback, entries) ==
    LET st == acc.st
        name == st[field]
        hit == PhilAtlasFind(entries, name)
        reason == IF fallback THEN NotFoundBothReason(comp, name)
                  ELSE NotFoundPsgcReason(comp, name)
    IN  IF ~Truthy(name) THEN acc
        ELSE IF match.found
        THEN [acc EXCEPT !.st = [st EXCEPT ![field] = Title(match.name),
                                           ![code_field] = match.code]]
        ELSE IF fallback /\ hit # 0
        THEN [acc EXCEPT !.st = [st EXCEPT ![field] = Title(entries[hit].name)],
                         !.philatlas_used = TRUE,
                         !.new_reasons =
                             Append(@, VerifiedPhilAtlasReason(comp))]
        ELSE [acc EXCEPT !.st = [st EXCEPT ![field] = Title(name)],
                         !.psgc_api_valid = FALSE,
                         !.new_reasons =
                             IF InList(reason, st.reasons) THEN @
                             ELSE Append(@, reason)]

\* AddressValidatorAgent._validate_psgc_api.  philatlas is the kind of
\* philatlas_client; pm, cm, bm are the results of search_province,
\* search_city_municipality and search_barangay; pl, cl, bl the lists
\* get_provinces, get_cities_municipalities and get_barangays return.
validate_psgc_api(st, philatlas, pm, cm, bm, pl, cl, bl) ==
    LET has == philatlas # "None"
        a0 == [st |-> [st EXCEPT !.current_step = "validate_psgc_api"],
               psgc_api_valid |-> TRUE, philatlas_used |-> FALSE,
               new_reasons |-> << >>]
        a1 == validate_component(a0, "Province", "province", "province_code",
                                 pm, has, pl)
        \* the zip_code of the matched city fills an empty postal_code
        a2c == validate_component(
                   a1, "City", "city", "city_code", cm, has,
                   IF PhilAtlasUrl(pl, a1.st.province) # "" THEN cl ELSE << >>)
        a2 == IF Truthy(a1.st.city) /\ cm.found
                 /\ ~Truthy(a1.st.postal_code) /\ Truthy(cm.zip_code)
              THEN [a2c EXCEPT !.st.postal_code = cm.zip_code]
              ELSE a2c
        city_url == IF PhilAtlasUrl(pl, a2.st.province) # ""
                    THEN PhilAtlasUrl(cl, a2.st.city) ELSE ""
        a3 == validate_component(
                   a2, "Barangay", "barangay", "barangay_code", bm,
                   has /\ Truthy(a2.st.city),
                   IF city_url # "" THEN bl ELSE << >>)
        s4 == [a3.st EXCEPT
                 !.reasons = @ \o a3.new_reasons,
                 !.psgc_api_validated = a3.psgc_api_valid \/ a3.philatlas_used]
    IN  complete_structure(s4)

\* province_code[:2] + "0000000"
region_of(code) ==
    SubSeq(code, 1, IF Len(code) < 2 THEN Len(code) ELSE 2) \o
    <<0,0,0,0,0,0,0>>

\* AddressValidatorAgent._match_psgc.  db is self.db_available; prow and
\* crow are the rows get_province_details and get_city_details return;
\* postal is what get_barangay_postal_code returns on a client that has it.
\* The result is the returned state, or `raised`: get_barangay_details is
\* defined with one parameter and called here with two (TypeError), and
\* PhilAtlasClient defines no get_barangay_postal_code (AttributeError);
\* neither is caught.
match_psgc(st, db, philatlas, prow, crow, postal) ==
    LET s0 == [st EXCEPT !.current_step = "match_psgc"]
        s1 == IF s0.province_code # NoCode
              THEN [s0 EXCEPT !.province_id = s0.province_code,
                              !.region_id = region_of(s0.province_code)]
              ELSE IF Truthy(s0.province) /\ db /\ prow.found
              THEN [s0 EXCEPT !.region_id = prow.region_id,
                              !.province_id = prow.id]
              ELSE s0
        s2 == IF s1.city_code # NoCode
              THEN [s1 EXCEPT !.city_id = s1.city_code]
              ELSE IF Truthy(s1.city) /\ db /\ crow.found
              THEN [s1 EXCEPT !.city_id = crow.id]
              ELSE s1
        type_error == s2.barangay_code = NoCode /\ Truthy(s2.barangay) /\ db
        s3 == IF s2.barangay_code # NoCode
              THEN [s2 EXCEPT !.barangay_id = s2.barangay_code]
              ELSE s2
        lookup == ~Truthy(s3.postal_code) /\ Truthy(s3.barangay)
                  /\ Truthy(s3.city) /\ philatlas # "None"
        attribute_error == lookup /\ philatlas = "PhilAtlasClient"
        suggestion == [kind |-> "postal_suggested", comp |-> postal,
                       name |-> s3.barangay]
        s4 == IF lookup /\ Truthy(postal)
              THEN [s3 EXCEPT !.postal_code = postal,
                              !.suggestions =
                                  IF InList(suggestion, @) THEN @
                                  ELSE Append(@, suggestion)]
              ELSE s3
        psgc_codes_found == s4.region_id # NoCode /\ s4.province_id # NoCode
                            /\ s4.city_id # NoCode /\ s4.barangay_id # NoCode
        s5 == [s4 EXCEPT !.psgc_matched =
                             psgc_codes_found /\ s4.psgc_api_validated]
    IN  IF type_error \/ attribute_error
        THEN [raised |-> TRUE, st |-> st]
        ELSE [raised |-> FALSE, st |-> s5]

\* A faulty _geocode_address: the postal code and the city of the geocode
\* result are taken whenever the result has them, also over a value the
\* state already holds.
geocode_address_overwriting(st, gmaps, db, g, crow, brow) ==
    LET s0 == [st EXCEPT !.current_step = "geocode"]
        s1 == [s0 EXCEPT !.latitude = g.latitude, !.longitude = g.longitude,
                         !.place_id = g.place_id,
                         !.geocode_formatted_address = Text(g.formattedAddress),
                         !.geocode_matched = TRUE,
                         !.geocode_city = g.city,
                         !.geocode_barangay = g.barangay,
                         !.geocode_postal = g.postalCode]
        s2 == IF Truthy(g.city)
              THEN [s1 EXCEPT !.city = g.city,
                              !.city_id = IF db /\ crow.found THEN crow.id
                                          ELSE @]
              ELSE s1
        s4 == IF Truthy(g.postalCode)
              THEN [s2 EXCEPT !.postal_code = g.postalCode]
              ELSE s2
    IN  IF ~gmaps THEN s0
        ELSE IF ~g.isValid
        THEN [s0 EXCEPT !.reasons = Append(@, GeocodeReason(g.reason)),
                        !.geocode_matched = FALSE]
        ELSE complete_structure(s4)

\* A faulty _geocode_address: the city, barangay and postal code of the
\* geocode result are stored as guesses only, no empty field is filled.
geocode_address_guesses_only(st, gmaps, db, g, crow, brow) ==
    LET s0 == [st EXCEPT !.current_step = "geocode"]
        s1 == [s0 EXCEPT !.latitude = g.latitude, !.longitude = g.longitude,
                         !.place_id = g.place_id,
                         !.geocode_formatted_address = Text(g.formattedAddress),
                         !.geocode_matched = TRUE,
                         !.geocode_city = g.city,
                         !.geocode_barangay = g.barangay,
                         !.geocode_postal = g.postalCode]
    IN  IF ~gmaps THEN s0
        ELSE IF ~g.isValid
        THEN [s0 EXCEPT !.reasons = Append(@, GeocodeReason(g.reason)),
                        !.geocode_matched = FALSE]
        ELSE complete_structure(s1)

\* AddressValidatorAgent._geocode_address.  g is the dict get_geocode
\* returned; crow and brow the rows get_city_details and
\* get_barangay_details (called here with one argument) return.
geocode_address(st, gmaps, db, g, crow, brow) ==
    LET s0 == [st EXCEPT !.current_step = "geocode"]
        s1 == [s0 EXCEPT !.latitude = g.latitude, !.longitude = g.longitude,
                         !.place_id = g.place_id,
                         !.geocode_formatted_address = Text(g.formattedAddress),
                         !.geocode_matched = TRUE,
                         !.geocode_city = g.city,
                         !.geocode_barangay = g.barangay,
                         !.geocode_postal = g.postalCode]
        fill_city == ~Truthy(s1.city) /\ Truthy(g.city)
        s2 == IF fill_city
              THEN [s1 EXCEPT !.city = g.city,
                              !.city_id = IF db /\ crow.found THEN crow.id
                                          ELSE @]
              ELSE s1
        fill_brgy == ~Truthy(s2.barangay) /\ Truthy(g.barangay)
        s3 == IF fill_brgy
              THEN [s2 EXCEPT !.barangay = g.barangay,
                              !.barangay_id = IF db /\ brow.found THEN brow.id
                                              ELSE @,
                              !.postal_code =
                                  IF db /\ brow.found /\ ~Truthy(@)
                                  THEN brow.postcode ELSE @]
              ELSE s2
        s4 == IF ~Truthy(s3.postal_code) /\ Truthy(g.postalCode)
              THEN [s3 EXCEPT !.postal_code = g.postalCode]
              ELSE s3
    IN  IF ~gmaps THEN s0
        ELSE IF ~g.isValid
        THEN [s0 EXCEPT !.reasons = Append(@, GeocodeReason(g.reason)),
                        !.geocode_matched = FALSE]
        ELSE IF s0.country = "PH"
        THEN complete_structure(s4)
        ELSE [s0 EXCEPT !.structure_ok = TRUE,
                        !.street_address = g.streetAddress,
                        !.city = g.city, !.province = g.province,
                        !.postal_code = g.postalCode,
                        !.country = g.country,
                        !.formatted_address = Text(g.formattedAddress),
                        !.latitude = g.latitude, !.longitude = g.longitude,
                        !.place_id = g.place_id,
                        !.geocode_matched = TRUE]

\* AddressValidatorAgent._refine_with_geocode.  cm and bm are the results
\* of search_city_municipality(city) and search_barangay(barangay,
\* city_code).
refine_with_geocode(st, cm, bm) ==
    LET s0 == [st EXCEPT !.current_step = "refine_with_geocode"]
        s1 == IF ~Truthy(s0.city) /\ Truthy(s0.geocode_city)
              THEN IF cm.found
                   THEN [s0 EXCEPT !.city = Title(cm.name),
                                   !.city_code = cm.code]
                   ELSE [s0 EXCEPT !.city = s0.geocode_city]
              ELSE s0
        s2 == IF ~Truthy(s1.barangay) /\ Truthy(s1.geocode_barangay)
              THEN IF s1.city_code # NoCode /\ bm.found
                   THEN [s1 EXCEPT !.barangay = Title(bm.name),
                                   !.barangay_code = bm.code]
                   ELSE [s1 EXCEPT !.barangay = s1.geocode_barangay]
              ELSE s1
        s3 == IF ~Truthy(s2.postal_code) /\ Truthy(s2.geocode_postal)
              THEN [s2 EXCEPT !.postal_code = s2.geocode_postal]
              ELSE s2
    IN  complete_structure(s3)

\* The status of the first row of a history, "" for an empty history
\* (format_history of _check_delivery_history).
first_status(history) == IF Len(history) > 0 THEN history[1] ELSE ""

\* A faulty reading of a history: the oldest row decides.
delivery_outcome_oldest_row(history, so_far) ==
    IF Len(history) > 0 /\ history[Len(history)] = "DELIVERED" THEN 1
    ELSE IF Len(history) > 0 /\ history[Len(history)] = "RETURN TO SENDER"
    THEN -1
    ELSE so_far

\* The delivery_success a history yields on top of the value so far.
delivery_outcome(history, so_far) ==
    IF Len(history) > 0 /\ history[1] = "DELIVERED" THEN 1
    ELSE IF Len(history) > 0 /\ history[1] = "RETURN TO SENDER" THEN -1
    ELSE so_far

\* AddressValidatorAgent._check_delivery_history.  oh and fh are the rows
\* get_delivery_history returns for clean_address and formatted_address.
check_delivery_history(st, db, oh, fh) ==
    LET s0 == [st EXCEPT !.current_step = "check_delivery"]
        formatted_history == IF s0.formatted_address # NoText THEN fh
                             ELSE << >>
    IN  IF ~db THEN s0
        ELSE [s0 EXCEPT
                !.delivery_history_success =
                    delivery_outcome(formatted_history,
                                     delivery_outcome(oh, 0)),
                !.delivery_history =
                    [inputStatus |-> first_status(oh),
                     formattedStatus |-> first_status(formatted_history)]]

\* max(a, b)
Max(a, b) == IF a >= b THEN a ELSE b
\* min(a, b)
Min(a, b) == IF a <= b THEN a ELSE b

\* A faulty _retry_with_suggestions: a city found on retry counts as a
\* reference match.
retry_with_suggestions_marks_matched(st, cm, pm) ==
    [st EXCEPT !.current_step = "retry_with_suggestions_attempted",
               !.psgc_matched = cm.found,
               !.confidence = IF cm.found THEN Max(@, 40) ELSE @]

\* AddressValidatorAgent._retry_with_suggestions.  cm is the result of
\* search_city_municipality(city); pm the first match search_province finds
\* among the three spellings of the province it tries.
retry_with_suggestions(st, cm, pm) ==
    LET s0 == [st EXCEPT !.current_step = "retry_with_suggestions_attempted"]
        reasons == s0.reasons
        brgy_missing ==
            \E i \in 1..Len(reasons) :
                Contains(reasons[i], "Barangay") /\ Contains(reasons[i], "not found")
        prov_missing ==
            \E i \in 1..Len(reasons) :
                Contains(reasons[i], "Province") /\ Contains(reasons[i], "not found")
        s1 == IF brgy_missing /\ Truthy(s0.city) /\ Truthy(s0.province)
                 /\ cm.found
              THEN [s0 EXCEPT
                      !.city = Title(cm.name), !.city_code = cm.code,
                      !.city_id = cm.code,
                      !.suggestions =
                          Append(@, [kind |-> "validated_city_level",
                                     comp |-> Title(cm.name),
                                     name |-> s0.barangay]),
                      !.confidence = Max(@, 40)]
              ELSE s0
    IN  IF prov_missing /\ pm.found
        THEN [s1 EXCEPT
                !.province = Title(pm.name), !.province_code = pm.code,
                !.suggestions =
                    Append(@, [kind |-> "province_corrected", comp |-> "",
                               name |-> Title(pm.name)])]
        ELSE s1

\* The sum of _calculate_verdict for the given weight of a geocode match,
\* with the two special cases and the clamp.
verdict_with(st, special_cases, geocode_weight, top) ==
    LET delivery_success == st.delivery_history_success
        score == 50
                 + (IF delivery_success = 1 THEN 15
                    ELSE IF delivery_success = 0 THEN 0 ELSE -15)
                 + (IF st.structure_ok THEN 20 ELSE -10)
                 + (IF st.psgc_matched THEN 10 ELSE -5)
                 + (IF st.geocode_matched THEN geocode_weight ELSE -2)
                 - (IF AnyContains(st.reasons, "not found in PSGC API")
                    THEN 20 ELSE 0)
        confidence ==
            IF st.structure_ok /\ st.psgc_matched /\ st.geocode_matched
               /\ delivery_success = 1
            THEN top
            ELSE IF ~special_cases THEN score
            ELSE IF ~st.structure_ok /\ ~st.psgc_matched
                    /\ ~st.geocode_matched /\ delivery_success <= 0
            THEN 0
            ELSE Max(0, Min(100, score))
    IN  [st EXCEPT !.current_step = "calculate_verdict",
                   !.confidence = confidence]

\* A faulty _calculate_verdict: a geocode match weighs 5, not 4.
calculate_verdict_geocode_5(st) == verdict_with(st, TRUE, 5, 99)

\* A faulty _calculate_verdict: neither the all-negative case nor the
\* clamp.
calculate_verdict_unclamped(st) == verdict_with(st, FALSE, 4, 99)

\* A faulty _calculate_verdict: the all-positive case gives 90.
calculate_verdict_top_90(st) == verdict_with(st, TRUE, 4, 90)

\* A faulty _calculate_verdict: a missing geocode match costs nothing.
calculate_verdict_no_geocode_penalty(st) ==
    LET delivery_success == st.delivery_history_success
        score == 50
                 + (IF delivery_success = 1 THEN 15
                    ELSE IF delivery_success = 0 THEN 0 ELSE -15)
                 + (IF st.structure_ok THEN 20 ELSE -10)
                 + (IF st.psgc_matched THEN 10 ELSE -5)
                 + (IF st.geocode_matched THEN 4 ELSE 0)
                 - (IF AnyContains(st.reasons, "not found in PSGC API")
                    THEN 20 ELSE 0)
        confidence ==
            IF st.structure_ok /\ st.psgc_matched /\ st.geocode_matched
               /\ delivery_success = 1
            THEN 99
            ELSE IF ~st.structure_ok /\ ~st.psgc_matched
                    /\ ~st.geocode_matched /\ delivery_success <= 0
            THEN 0
            ELSE Max(0, Min(100, score))
    IN  [st EXCEPT !.current_step = "calculate_verdict",
                   !.confidence = confidence]

\* A faulty _calculate_verdict: the all-positive case gives 100.
calculate_verdict_top_100(st) == verdict_with(st, TRUE, 4, 100)

\* A faulty _calculate_verdict: a geocode match weighs 3, not 4.
calculate_verdict_geocode_3(st) == verdict_with(st, TRUE, 3, 99)

\* AddressValidatorAgent._calculate_verdict
calculate_verdict(st) ==
    LET structure_ok == st.structure_ok
        psgc_matched == st.psgc_matched
        geocode_matched == st.geocode_matched
        delivery_success == st.delivery_history_success
        has_psgc_api_errors == AnyContains(st.reasons, "not found in PSGC API")
        score == 50
                 + (IF delivery_success = 1 THEN 15
                    ELSE IF delivery_success = 0 THEN 0 ELSE -15)
                 + (IF structure_ok THEN 20 ELSE -10)
                 + (IF psgc_matched THEN 10 ELSE -5)
                 + (IF geocode_matched THEN 4 ELSE -2)
                 - (IF has_psgc_api_errors THEN 20 ELSE 0)
        confidence ==
            IF structure_ok /\ psgc_matched /\ geocode_matched
               /\ delivery_success = 1
            THEN 99
            ELSE IF ~structure_ok /\ ~psgc_matched /\ ~geocode_matched
                    /\ delivery_success <= 0
            THEN 0
            ELSE Max(0, Min(100, score))
    IN  [st EXCEPT !.current_step = "calculate_verdict",
                   !.confidence = confidence]

\* A faulty _route_after_country_check: every country goes on to parsing.
route_after_country_check_always_parse(st) == "parse"

\* AddressValidatorAgent._route_after_country_check
route_after_country_check(st) == IF st.country = "PH" THEN "parse" ELSE "end"

\* A faulty _route_after_psgc: the postal code is not looked at.
route_after_psgc_no_postal(st) ==
    IF Truthy(st.province) /\ Truthy(st.city) /\ Truthy(st.barangay)
       /\ st.psgc_matched
    THEN "skip_geocode" ELSE "geocode"

\* AddressValidatorAgent._route_after_psgc
route_after_psgc(st) ==
    LET has_all_components ==
            Truthy(st.province) /\ Truthy(st.city) /\ Truthy(st.barangay)
            /\ Truthy(st.postal_code)
    IN  IF has_all_components /\ st.psgc_matched THEN "skip_geocode"
        ELSE "geocode"

\* A faulty _route_after_geocode: the coordinates are not looked at.
route_after_geocode_any_coordinates(st) ==
    IF st.geocode_matched
       /\ ~(Truthy(st.province) /\ Truthy(st.city) /\ Truthy(st.barangay))
    THEN "refine" ELSE "continue"

\* AddressValidatorAgent._route_after_geocode
route_after_geocode(st) ==
    LET geocode_provided_data ==
            st.geocode_matched /\ (st.latitude # 0 \/ st.longitude # 0)
        missing_components ==
            ~(Truthy(st.province) /\ Truthy(st.city) /\ Truthy(st.barangay))
    IN  IF geocode_provided_data /\ missing_components THEN "refine"
        ELSE "continue"

\* `"retry_attempted" in current_step`: no step name of the graph has that
\* substring ("retry_with_suggestions_attempted" does not contain it).
step_has_retry_attempted(step) == FALSE

\* A faulty _route_after_delivery: no look at the suggestions.
route_after_delivery_any_suggestions(st) ==
    IF st.confidence < 50 /\ ~st.structure_ok /\ ~st.psgc_matched
       /\ ~st.geocode_matched /\ st.delivery_history_success <= 0
    THEN "retry" ELSE "finish"

\* AddressValidatorAgent._route_after_delivery
route_after_delivery(st) ==
    LET low_confidence == st.confidence < 50
        no_positive_signals ==
            ~st.structure_ok /\ ~st.psgc_matched /\ ~st.geocode_matched
            /\ st.delivery_history_success <= 0
        has_suggestions == Len(st.suggestions) > 0
        already_retried == step_has_retry_attempted(st.current_step)
    IN  IF low_confidence /\ no_positive_signals /\ has_suggestions
           /\ ~already_retried
        THEN "retry" ELSE "finish"

\* The order-preserving de-duplication loops of _build_response: the
\* entries of `list` in order of first occurrence.
RECURSIVE unique(_)
unique(list) ==
    IF list = << >> THEN << >>
    ELSE LET first == Head(list)
             differs(x) == x # first
         IN  << first >> \o unique(SelectSeq(Tail(list), differs))

\* No response has been returned yet.
NoResponse ==
    [built |-> FALSE, isValid |-> FALSE, structureOk |-> FALSE,
     psgcMatched |-> FALSE, geocodeMatched |-> FALSE,
     deliveryHistorySuccess |-> FALSE, confidence |-> 0,
     formattedAddress |-> NoText, reason |-> << >>, suggestions |-> << >>]

\* A faulty _build_response: `reasons` and `suggestions` as the state holds
\* them, no de-duplication.
build_response_keep_duplicates(st) ==
    LET is_valid ==
            IF AnyContains(st.reasons, "only validate Philippine addresses")
            THEN FALSE
            ELSE IF AnyContains(st.reasons, "not found in PSGC API")
                    /\ st.delivery_history_success # 1
            THEN FALSE
            ELSE st.structure_ok \/ st.psgc_matched \/ st.geocode_matched
                 \/ st.delivery_history_success = 1
    IN  [built |-> TRUE, isValid |-> is_valid,
         structureOk |-> st.structure_ok, psgcMatched |-> st.psgc_matched,
         geocodeMatched |-> st.geocode_matched,
         deliveryHistorySuccess |-> (st.delivery_history_success = 1),
         confidence |-> st.confidence,
         formattedAddress |-> IF st.formatted_address # NoText
                              THEN st.formatted_address
                              ELSE st.geocode_formatted_address,
         reason |-> st.reasons, suggestions |-> st.suggestions]

\* A faulty _build_response: is_valid without the PSGC API rule.
build_response_no_psgc_rule(st) ==
    LET reasons == unique(st.reasons)
        is_valid ==
            IF AnyContains(reasons, "only validate Philippine addresses")
            THEN FALSE
            ELSE st.structure_ok \/ st.psgc_matched \/ st.geocode_matched
                 \/ st.delivery_history_success = 1
    IN  [built |-> TRUE, isValid |-> is_valid,
         structureOk |-> st.structure_ok, psgcMatched |-> st.psgc_matched,
         geocodeMatched |-> st.geocode_matched,
         deliveryHistorySuccess |-> (st.delivery_history_success = 1),
         confidence |-> st.confidence,
         formattedAddress |-> IF st.formatted_address # NoText
                              THEN st.formatted_address
                              ELSE st.geocode_formatted_address,
         reason |-> reasons, suggestions |-> unique(st.suggestions)]

\* AddressValidatorAgent._build_response: the verdict, the formatted
\* address and the two lists of the EnhancedAddressValidationResponse.
build_response(st) ==
    LET reasons == unique(st.reasons)
        is_non_ph_rejection ==
            AnyContains(reasons, "only validate Philippine addresses")
        has_psgc_api_errors == AnyContains(reasons, "not found in PSGC API")
        is_valid ==
            IF is_non_ph_rejection THEN FALSE
            ELSE IF has_psgc_api_errors /\ st.delivery_history_success # 1
            THEN FALSE
            ELSE st.structure_ok \/ st.psgc_matched \/ st.geocode_matched
                 \/ st.delivery_history_success = 1
    IN  [built |-> TRUE, isValid |-> is_valid,
         structureOk |-> st.structure_ok, psgcMatched |-> st.psgc_matched,
         geocodeMatched |-> st.geocode_matched,
         deliveryHistorySuccess |-> (st.delivery_history_success = 1),
         confidence |-> st.confidence,
         formattedAddress |-> IF st.formatted_address # NoText
                              THEN st.formatted_address
                              ELSE st.geocode_formatted_address,
         reason |-> reasons, suggestions |-> unique(st.suggestions)]

\* VerdictResponse.confidence: Field(0, ge=0, le=100); a value outside
\* makes the constructor raise.
verdict_accepts(confidence) == confidence >= 0 /\ confidence <= 100

\* No call of a client search or of a tool is under way.
NoTool == [op |-> "none"]

(***************************************************************************)
(* The graph of _build_graph as a state machine.                           *)
(***************************************************************************)
VARIABLES
    state,              \* the ValidationState of the request
    pc,                 \* the node that runs next, "__end__", "returned"
                        \* or "raised"
    gmaps_validator,    \* self.gmaps_validator is set
    db_available,       \* self.db_available
    philatlas_client,   \* the kind of self.philatlas_client
    visited,            \* the nodes that ran, in order
    response,           \* what validate_address returned
    tool                \* a call of a PSGC client search or of a tool of
                        \* the LLM agent, with its result once it returned

vars == << state, pc, gmaps_validator, db_available, philatlas_client,
           visited, response, tool >>

config == << gmaps_validator, db_available, philatlas_client >>

Init ==
    /\ state = initial_state
    /\ pc = "initialize"
    /\ gmaps_validator \in BOOLEAN
    /\ db_available \in BOOLEAN
    /\ philatlas_client \in PhilAtlasKinds
    /\ visited = << >>
    /\ response = NoResponse
    /\ tool = NoTool

\* A node ran: its returned state goes through the reducers, and the edge
\* out of the node names the next one.
Ran(node, ret, next) ==
    /\ state' = add_reducer(ret)
    /\ pc' = next
    /\ visited' = Append(visited, node)
    /\ UNCHANGED << config, response, tool >>

\* A node raised: ainvoke, and with it validate_address, raises.
Raised(node) ==
    /\ pc' = "raised"
    /\ visited' = Append(visited, node)
    /\ UNCHANGED << state, config, response, tool >>

Initialize ==
    /\ pc = "initialize"
    /\ Ran("initialize", initialize_state(state), "validate_country")

ValidateCountry ==
    /\ pc = "validate_country"
    /\ \E av \in AddrValidationResults :
         LET ret == validate_country(state, gmaps_validator, av)
         IN  Ran("validate_country", ret,
                 IF route_after_country_check(add_reducer(ret)) = "parse"
                 THEN "parse_address" ELSE "calculate_verdict")

ParseAddress ==
    /\ pc = "parse_address"
    /\ \E parsed \in ParsedAddresses :
         Ran("parse_address", parse_address(state, parsed),
             "apply_typo_corrections")

ApplyTypoCorrections ==
    /\ pc = "apply_typo_corrections"
    /\ Ran("apply_typo_corrections", apply_typo_corrections(state),
           "validate_psgc_api")

ValidatePsgcApi ==
    /\ pc = "validate_psgc_api"
    /\ \E pm \in ProvinceMatches, cm \in CityMatches, bm \in BarangayMatches,
          pl \in PhilAtlasProvinceLists, cl \in PhilAtlasCityLists,
          bl \in PhilAtlasBarangayLists :
         Ran("validate_psgc_api",
             validate_psgc_api(state, philatlas_client, pm, cm, bm, pl, cl, bl),
             "match_psgc")

MatchPsgc ==
    /\ pc = "match_psgc"
    /\ \E prow \in ProvinceRows, crow \in CityRows,
          postal \in PostalLookupResults :
         LET r == match_psgc(state, db_available, philatlas_client,
                             prow, crow, postal)
         IN  IF r.raised THEN Raised("match_psgc")
             ELSE Ran("match_psgc", r.st,
                      IF route_after_psgc(add_reducer(r.st)) = "geocode"
                      THEN "geocode" ELSE "check_delivery")

Geocode ==
    /\ pc = "geocode"
    /\ \E g \in GeocodeResults, crow \in CityRows, brow \in BarangayRows :
         LET ret == geocode_address(state, gmaps_validator, db_available,
                                    g, crow, brow)
         IN  Ran("geocode", ret,
                 IF route_after_geocode(add_reducer(ret)) = "refine"
                 THEN "refine_with_geocode" ELSE "check_delivery")

RefineWithGeocode ==
    /\ pc = "refine_with_geocode"
    /\ \E cm \in CityMatches, bm \in BarangayMatches :
         Ran("refine_with_geocode", refine_with_geocode(state, cm, bm),
             "check_delivery")

CheckDelivery ==
    /\ pc = "check_delivery"
    /\ \E oh \in (IF db_available THEN Histories ELSE {<< >>}),
          fh \in (IF db_available /\ state.formatted_address # NoText
                  THEN Histories ELSE {<< >>}) :
         LET ret == check_delivery_history(state, db_available, oh, fh)
         IN  Ran("check_delivery", ret,
                 IF route_after_delivery(add_reducer(ret)) = "retry"
                 THEN "retry_with_suggestions" ELSE "calculate_verdict")

RetryWithSuggestions ==
    /\ pc = "retry_with_suggestions"
    /\ \E cm \in CityMatches, pm \in ProvinceMatches :
         Ran("retry_with_suggestions", retry_with_suggestions(state, cm, pm),
             "calculate_verdict")

CalculateVerdict ==
    /\ pc = "calculate_verdict"
    /\ Ran("calculate_verdict", calculate_verdict(state), "__end__")

\* validate_address returns _build_response(final_state).
BuildResponse ==
    /\ pc = "__end__"
    /\ IF verdict_accepts(state.confidence)
       THEN /\ response' = build_response(state)
            /\ pc' = "returned"
       ELSE /\ response' = response
            /\ pc' = "raised"
    /\ UNCHANGED << state, config, visited, tool >>

Next ==
    \/ Initialize
    \/ ValidateCountry
    \/ ParseAddress
    \/ ApplyTypoCorrections
    \/ ValidatePsgcApi
    \/ MatchPsgc
    \/ Geocode
    \/ RefineWithGeocode
    \/ CheckDelivery
    \/ RetryWithSuggestions
    \/ CalculateVerdict
    \/ BuildResponse

Spec == Init /\ [][Next]_vars

\* Every node of the graph returns and the graph runs the next one: the
\* request does not stop while a node is due.
FairSpec == Spec /\ WF_vars(Next)

(***************************************************************************)
(* PSGCAPIClient: the name searches over the lists psgc.cloud returns.     *)
(* Names are strings; _normalize_name, _get_city_name_variations,          *)
(* _normalize_for_matching, the substring test, len(), the SequenceMatcher *)
(* ratio and the Levenshtein distance are tables of the values the source  *)
(* computes on the names of the model.                                     *)
(***************************************************************************)
\* PSGCAPIClient._normalize_name: lower-case, strip, drop one leading
\* prefix ("city of ", "municipality of ", "barangay ", ...).
psgc_normalize_name(s) ==
    CASE s = "Baco" -> "baco"
      [] s = "Bacolod City" -> "bacolod city"
      [] s = "Bacoor" -> "bacoor"
      [] s = "Bacor" -> "bacor"
      [] s = "Cavite" -> "cavite"
      [] s = "Cavitte" -> "cavitte"
      [] s = "Cebu" -> "cebu"
      [] s = "City of Bacoor" -> "bacoor"
      [] s = "City of San Jose" -> "san jose"
      [] s = "City of San Jose del Monte" -> "san jose del monte"
      [] s = "City of San Jose del Monte Bulacan" -> "san jose del monte bulacan"
      [] s = "Isidro" -> "isidro"
      [] s = "Molino" -> "molino"
      [] s = "Molino I" -> "molino i"
      [] s = "Municipality of San Jose" -> "san jose"
      [] s = "Quezon City" -> "quezon city"
      [] s = "Quezon Cty" -> "quezon cty"
      [] s = "San Isidro" -> "san isidro"
      [] s = "San Jose" -> "san jose"
      [] s = "San Jose City" -> "san jose city"
      [] s = "San-Isidro" -> "san-isidro"
      [] s = "Xyz" -> "xyz"
      [] OTHER -> s

\* PSGCAPIClient._get_city_name_variations(name), as a set.
city_name_variations(s) ==
    CASE s = "Bacoor" ->
            {"bacoor", "bacoor city", "city of bacoor"}
      [] s = "Bacor" ->
            {"bacor", "bacor city", "city of bacor"}
      [] s = "Baco" ->
            {"baco", "baco city", "city of baco"}
      [] s = "Quezon City" ->
            {"city of quezon", "quezon", "quezon city"}
      [] s = "Quezon Cty" ->
            {"city of quezon cty", "quezon cty", "quezon cty city"}
      [] s = "City of San Jose del Monte Bulacan" ->
            {"city of san jose del monte bulacan", "san jose del monte bulacan", "san jose del monte bulacan city"}
      [] s = "Xyz" ->
            {"city of xyz", "xyz", "xyz city"}
      [] s = "San Jose" ->
            {"city of san jose", "san jose", "san jose city"}
      [] s = "City of San Jose" ->
            {"city of san jose", "san jose", "san jose city"}
      [] s = "San Jose City" ->
            {"city of san jose", "san jose", "san jose city"}
      [] s = "Municipality of San Jose" ->
            {"city of san jose", "municipality of san jose", "san jose", "san jose city"}
      [] s = "..." ->
            {"...", "... city", "city of ..."}
      [] OTHER -> {s}

\* The pairs <<a, b>> of normalised texts with `a in b`.
Substrings ==
    {<<"", "">>,
     <<"", "baco">>,
     <<"", "bacolod city">>,
     <<"", "bacoor">>,
     <<"", "bacor">>,
     <<"", "cavite">>,
     <<"", "cavitte">>,
     <<"", "cebu">>,
     <<"", "city of bacor">>,
     <<"", "city of san jose">>,
     <<"", "city of san jose del monte">>,
     <<"", "city of san jose del monte bulacan">>,
     <<"", "isidro">>,
     <<"", "molino">>,
     <<"", "molino i">>,
     <<"", "municipality of san jose">>,
     <<"", "quezon city">>,
     <<"", "quezon cty">>,
     <<"", "san isidro">>,
     <<"", "san jose">>,
     <<"", "san jose city">>,
     <<"", "san jose del monte">>,
     <<"", "san jose del monte bulacan">>,
     <<"", "san-isidro">>,
     <<"", "xyz">>,
     <<"baco", "baco">>,
     <<"baco", "bacolod city">>,
     <<"baco", "bacoor">>,
     <<"baco", "bacor">>,
     <<"baco", "city of bacor">>,
     <<"bacolod city", "bacolod city">>,
     <<"bacoor", "bacoor">>,
     <<"bacor", "bacor">>,
     <<"bacor", "city of bacor">>,
     <<"cavite", "cavite">>,
     <<"cavitte", "cavitte">>,
     <<"cebu", "cebu">>,
     <<"city of bacor", "city of bacor">>,
     <<"city of san jose", "city of san jose">>,
     <<"city of san jose", "city of san jose del monte">>,
     <<"city of san jose", "city of san jose del monte bulacan">>,
     <<"city of san jose del monte", "city of san jose del monte">>,
     <<"city of san jose del monte", "city of san jose del monte bulacan">>,
     <<"city of san jose del monte bulacan", "city of san jose del monte bulacan">>,
     <<"isidro", "isidro">>,
     <<"isidro", "san isidro">>,
     <<"isidro", "san-isidro">>,
     <<"molino", "molino">>,
     <<"molino", "molino i">>,
     <<"molino i", "molino i">>,
     <<"municipality of san jose", "municipality of san jose">>,
     <<"quezon city", "quezon city">>,
     <<"quezon cty", "quezon cty">>,
     <<"san isidro", "san isidro">>,
     <<"san jose", "city of san jose">>,
     <<"san jose", "city of san jose del monte">>,
     <<"san jose", "city of san jose del monte bulacan">>,
     <<"san jose", "municipality of san jose">>,
     <<"san jose", "san jose">>,
     <<"san jose", "san jose city">>,
     <<"san jose", "san jose del monte">>,
     <<"san jose", "san jose del monte bulacan">>,
     <<"san jose city", "san jose city">>,
     <<"san jose del monte", "city of san jose del monte">>,
     <<"san jose del monte", "city of san jose del monte bulacan">>,
     <<"san jose del monte", "san jose del monte">>,
     <<"san jose del monte", "san jose del monte bulacan">>,
     <<"san jose del monte bulacan", "city of san jose del monte bulacan">>,
     <<"san jose del monte bulacan", "san jose del monte bulacan">>,
     <<"san-isidro", "san-isidro">>,
     <<"xyz", "xyz">>}

\* `a in b` for two normalised texts.
IsSubstring(a, b) == << a, b >> \in Substrings

\* len() of a normalised text.
StrLen(s) ==
    CASE s = "Baco" -> 4
      [] s = "Bacolod City" -> 12
      [] s = "Bacoor" -> 6
      [] s = "Bacor" -> 5
      [] s = "Cavite" -> 6
      [] s = "Cavitte" -> 7
      [] s = "Cebu" -> 4
      [] s = "City of Bacoor" -> 14
      [] s = "City of San Jose" -> 16
      [] s = "City of San Jose del Monte" -> 26
      [] s = "City of San Jose del Monte Bulacan" -> 34
      [] s = "Isidro" -> 6
      [] s = "Molino" -> 6
      [] s = "Molino I" -> 8
      [] s = "Municipality of San Jose" -> 24
      [] s = "Quezon City" -> 11
      [] s = "Quezon Cty" -> 10
      [] s = "San Isidro" -> 10
      [] s = "San Jose" -> 8
      [] s = "San Jose City" -> 13
      [] s = "San-Isidro" -> 10
      [] s = "Xyz" -> 3
      [] s = "baco" -> 4
      [] s = "bacolod city" -> 12
      [] s = "bacoor" -> 6
      [] s = "bacor" -> 5
      [] s = "cavite" -> 6
      [] s = "cavitte" -> 7
      [] s = "cebu" -> 4
      [] s = "city of bacor" -> 13
      [] s = "city of san jose" -> 16
      [] s = "city of san jose del monte" -> 26
      [] s = "city of san jose del monte bulacan" -> 34
      [] s = "isidro" -> 6
      [] s = "molino" -> 6
      [] s = "molino i" -> 8
      [] s = "municipality of san jose" -> 24
      [] s = "quezon city" -> 11
      [] s = "quezon cty" -> 10
      [] s = "san isidro" -> 10
      [] s = "san jose" -> 8
      [] s = "san jose city" -> 13
      [] s = "san jose del monte" -> 18
      [] s = "san jose del monte bulacan" -> 26
      [] s = "san-isidro" -> 10
      [] s = "xyz" -> 3
      [] s = "..." -> 3
      [] OTHER -> 0

\* PSGCAPIClient._normalize_for_matching: lower-case, strip, fold accents
\* and doubled vowels ("oo" -> "o"), drop punctuation, collapse spaces.
normalize_for_matching(text) ==
    CASE text = "Baco" -> "baco"
      [] text = "Bacolod City" -> "bacolod city"
      [] text = "Bacoor" -> "bacor"
      [] text = "Bacor" -> "bacor"
      [] text = "Cavite" -> "cavite"
      [] text = "Cavitte" -> "cavitte"
      [] text = "Cebu" -> "cebu"
      [] text = "City of Bacoor" -> "city of bacor"
      [] text = "City of San Jose" -> "city of san jose"
      [] text = "City of San Jose del Monte" -> "city of san jose del monte"
      [] text = "City of San Jose del Monte Bulacan" -> "city of san jose del monte bulacan"
      [] text = "Isidro" -> "isidro"
      [] text = "Molino" -> "molino"
      [] text = "Molino I" -> "molino i"
      [] text = "Municipality of San Jose" -> "municipality of san jose"
      [] text = "Quezon City" -> "quezon city"
      [] text = "Quezon Cty" -> "quezon cty"
      [] text = "San Isidro" -> "san isidro"
      [] text = "San Jose" -> "san jose"
      [] text = "San Jose City" -> "san jose city"
      [] text = "San-Isidro" -> "san-isidro"
      [] text = "Xyz" -> "xyz"
      [] text = "bacoor" -> "bacor"
      [] text = "..." -> ""
      [] OTHER -> text

\* difflib.SequenceMatcher(None, a, b).ratio() in ten-thousandths, on the
\* texts _normalize_for_matching returns.
matcher_ratio(a, b) ==
    CASE a = "" /\ b = "" -> 10000
      [] a = "baco" /\ b = "baco" -> 10000
      [] a = "baco" /\ b = "bacolod city" -> 5000
      [] a = "baco" /\ b = "city of bacor" -> 4706
      [] a = "baco" /\ b = "city of san jose" -> 2000
      [] a = "baco" /\ b = "city of san jose del monte" -> 1333
      [] a = "baco" /\ b = "municipality of san jose" -> 1429
      [] a = "baco" /\ b = "quezon city" -> 1333
      [] a = "baco" /\ b = "san jose" -> 3333
      [] a = "baco" /\ b = "san jose city" -> 2353
      [] a = "bacolod city" /\ b = "bacolod city" -> 10000
      [] a = "bacor" /\ b = "bacolod city" -> 4706
      [] a = "bacor" /\ b = "bacor" -> 10000
      [] a = "bacor" /\ b = "city of bacor" -> 5556
      [] a = "bacor" /\ b = "city of san jose" -> 1905
      [] a = "bacor" /\ b = "city of san jose del monte" -> 1290
      [] a = "bacor" /\ b = "municipality of san jose" -> 1379
      [] a = "bacor" /\ b = "quezon city" -> 1250
      [] a = "bacor" /\ b = "san jose" -> 3077
      [] a = "bacor" /\ b = "san jose city" -> 2222
      [] a = "cavite" /\ b = "cavite" -> 10000
      [] a = "cavite" /\ b = "cebu" -> 4000
      [] a = "cavitte" /\ b = "cavite" -> 9231
      [] a = "cavitte" /\ b = "cavitte" -> 10000
      [] a = "cavitte" /\ b = "cebu" -> 3636
      [] a = "cebu" /\ b = "cavite" -> 4000
      [] a = "cebu" /\ b = "cebu" -> 10000
      [] a = "city of bacor" /\ b = "city of bacor" -> 10000
      [] a = "city of san jose" /\ b = "city of san jose" -> 10000
      [] a = "city of san jose del monte" /\ b = "city of san jose del monte" -> 10000
      [] a = "city of san jose del monte bulacan" /\ b = "city of san jose del monte bulacan" -> 10000
      [] a = "isidro" /\ b = "isidro" -> 10000
      [] a = "isidro" /\ b = "molino" -> 3333
      [] a = "isidro" /\ b = "molino i" -> 2857
      [] a = "isidro" /\ b = "san isidro" -> 7500
      [] a = "isidro" /\ b = "san-isidro" -> 7500
      [] a = "molino" /\ b = "molino" -> 10000
      [] a = "molino" /\ b = "molino i" -> 8571
      [] a = "molino" /\ b = "san isidro" -> 1250
      [] a = "molino" /\ b = "san-isidro" -> 1250
      [] a = "molino i" /\ b = "molino i" -> 10000
      [] a = "municipality of san jose" /\ b = "municipality of san jose" -> 10000
      [] a = "quezon city" /\ b = "bacolod city" -> 5217
      [] a = "quezon city" /\ b = "city of bacor" -> 3333
      [] a = "quezon city" /\ b = "city of san jose" -> 2963
      [] a = "quezon city" /\ b = "city of san jose del monte" -> 2162
      [] a = "quezon city" /\ b = "municipality of san jose" -> 3429
      [] a = "quezon city" /\ b = "quezon city" -> 10000
      [] a = "quezon city" /\ b = "san jose" -> 2105
      [] a = "quezon city" /\ b = "san jose city" -> 5000
      [] a = "quezon cty" /\ b = "bacolod city" -> 4545
      [] a = "quezon cty" /\ b = "city of bacor" -> 2609
      [] a = "quezon cty" /\ b = "city of san jose" -> 2308
      [] a = "quezon cty" /\ b = "city of san jose del monte" -> 2222
      [] a = "quezon cty" /\ b = "municipality of san jose" -> 2353
      [] a = "quezon cty" /\ b = "quezon city" -> 9524
      [] a = "quezon cty" /\ b = "quezon cty" -> 10000
      [] a = "quezon cty" /\ b = "san jose" -> 2222
      [] a = "quezon cty" /\ b = "san jose city" -> 4348
      [] a = "san isidro" /\ b = "san isidro" -> 10000
      [] a = "san jose" /\ b = "bacolod city" -> 2000
      [] a = "san jose" /\ b = "city of bacor" -> 1905
      [] a = "san jose" /\ b = "city of san jose" -> 6667
      [] a = "san jose" /\ b = "city of san jose del monte" -> 4706
      [] a = "san jose" /\ b = "municipality of san jose" -> 5000
      [] a = "san jose" /\ b = "quezon city" -> 2105
      [] a = "san jose" /\ b = "san jose" -> 10000
      [] a = "san jose" /\ b = "san jose city" -> 7619
      [] a = "san jose city" /\ b = "bacolod city" -> 5600
      [] a = "san jose city" /\ b = "city of bacor" -> 3077
      [] a = "san jose city" /\ b = "city of san jose" -> 5517
      [] a = "san jose city" /\ b = "city of san jose del monte" -> 5128
      [] a = "san jose city" /\ b = "municipality of san jose" -> 4324
      [] a = "san jose city" /\ b = "quezon city" -> 5000
      [] a = "san jose city" /\ b = "san jose" -> 7619
      [] a = "san jose city" /\ b = "san jose city" -> 10000
      [] a = "san jose del monte bulacan" /\ b = "bacolod city" -> 1579
      [] a = "san jose del monte bulacan" /\ b = "city of bacor" -> 3077
      [] a = "san jose del monte bulacan" /\ b = "city of san jose" -> 3810
      [] a = "san jose del monte bulacan" /\ b = "city of san jose del monte" -> 6923
      [] a = "san jose del monte bulacan" /\ b = "municipality of san jose" -> 3200
      [] a = "san jose del monte bulacan" /\ b = "quezon city" -> 1622
      [] a = "san jose del monte bulacan" /\ b = "san jose" -> 4706
      [] a = "san jose del monte bulacan" /\ b = "san jose city" -> 5128
      [] a = "san-isidro" /\ b = "san isidro" -> 9000
      [] a = "san-isidro" /\ b = "san-isidro" -> 10000
      [] a = "xyz" /\ b = "bacolod city" -> 1333
      [] a = "xyz" /\ b = "city of bacor" -> 1250
      [] a = "xyz" /\ b = "city of san jose" -> 1053
      [] a = "xyz" /\ b = "city of san jose del monte" -> 690
      [] a = "xyz" /\ b = "municipality of san jose" -> 741
      [] a = "xyz" /\ b = "quezon city" -> 1429
      [] a = "xyz" /\ b = "san jose city" -> 1250
      [] a = "xyz" /\ b = "xyz" -> 10000
      [] OTHER -> 0

\* PSGCAPIClient._levenshtein_distance on the same texts.
levenshtein_distance(s1, s2) ==
    CASE s1 = "" /\ s2 = "cavite" -> 6
      [] s1 = "" /\ s2 = "cebu" -> 4
      [] s1 = "" /\ s2 = "city of bacor" -> 13
      [] s1 = "" /\ s2 = "bacolod city" -> 12
      [] s1 = "" /\ s2 = "quezon city" -> 11
      [] s1 = "baco" /\ s2 = "bacolod city" -> 8
      [] s1 = "baco" /\ s2 = "city of bacor" -> 9
      [] s1 = "baco" /\ s2 = "city of san jose" -> 14
      [] s1 = "baco" /\ s2 = "city of san jose del monte" -> 24
      [] s1 = "baco" /\ s2 = "municipality of san jose" -> 22
      [] s1 = "baco" /\ s2 = "quezon city" -> 10
      [] s1 = "baco" /\ s2 = "san jose" -> 6
      [] s1 = "baco" /\ s2 = "san jose city" -> 11
      [] s1 = "bacor" /\ s2 = "bacolod city" -> 8
      [] s1 = "bacor" /\ s2 = "city of bacor" -> 8
      [] s1 = "bacor" /\ s2 = "city of san jose" -> 14
      [] s1 = "bacor" /\ s2 = "city of san jose del monte" -> 24
      [] s1 = "bacor" /\ s2 = "municipality of san jose" -> 22
      [] s1 = "bacor" /\ s2 = "quezon city" -> 10
      [] s1 = "bacor" /\ s2 = "san jose" -> 6
      [] s1 = "bacor" /\ s2 = "san jose city" -> 11
      [] s1 = "cavite" /\ s2 = "" -> 6
      [] s1 = "cavite" /\ s2 = "cebu" -> 5
      [] s1 = "cavitte" /\ s2 = "cavite" -> 1
      [] s1 = "cavitte" /\ s2 = "cebu" -> 6
      [] s1 = "cebu" /\ s2 = "cavite" -> 5
      [] s1 = "isidro" /\ s2 = "molino" -> 5
      [] s1 = "isidro" /\ s2 = "molino i" -> 7
      [] s1 = "isidro" /\ s2 = "san isidro" -> 4
      [] s1 = "isidro" /\ s2 = "san-isidro" -> 4
      [] s1 = "molino" /\ s2 = "molino i" -> 2
      [] s1 = "molino" /\ s2 = "san isidro" -> 8
      [] s1 = "molino" /\ s2 = "san-isidro" -> 8
      [] s1 = "quezon city" /\ s2 = "bacolod city" -> 6
      [] s1 = "quezon city" /\ s2 = "city of bacor" -> 11
      [] s1 = "quezon city" /\ s2 = "city of san jose" -> 13
      [] s1 = "quezon city" /\ s2 = "city of san jose del monte" -> 22
      [] s1 = "quezon city" /\ s2 = "municipality of san jose" -> 20
      [] s1 = "quezon city" /\ s2 = "san jose" -> 9
      [] s1 = "quezon city" /\ s2 = "san jose city" -> 7
      [] s1 = "quezon cty" /\ s2 = "bacolod city" -> 7
      [] s1 = "quezon cty" /\ s2 = "city of bacor" -> 10
      [] s1 = "quezon cty" /\ s2 = "city of san jose" -> 13
      [] s1 = "quezon cty" /\ s2 = "city of san jose del monte" -> 22
      [] s1 = "quezon cty" /\ s2 = "municipality of san jose" -> 20
      [] s1 = "quezon cty" /\ s2 = "quezon city" -> 1
      [] s1 = "quezon cty" /\ s2 = "san jose" -> 9
      [] s1 = "quezon cty" /\ s2 = "san jose city" -> 8
      [] s1 = "san jose" /\ s2 = "bacolod city" -> 10
      [] s1 = "san jose" /\ s2 = "city of bacor" -> 12
      [] s1 = "san jose" /\ s2 = "city of san jose" -> 8
      [] s1 = "san jose" /\ s2 = "city of san jose del monte" -> 18
      [] s1 = "san jose" /\ s2 = "municipality of san jose" -> 16
      [] s1 = "san jose" /\ s2 = "quezon city" -> 9
      [] s1 = "san jose" /\ s2 = "san jose city" -> 5
      [] s1 = "san jose city" /\ s2 = "bacolod city" -> 6
      [] s1 = "san jose city" /\ s2 = "city of bacor" -> 12
      [] s1 = "san jose city" /\ s2 = "city of san jose" -> 13
      [] s1 = "san jose city" /\ s2 = "city of san jose del monte" -> 16
      [] s1 = "san jose city" /\ s2 = "municipality of san jose" -> 20
      [] s1 = "san jose city" /\ s2 = "quezon city" -> 7
      [] s1 = "san jose city" /\ s2 = "san jose" -> 5
      [] s1 = "san jose del monte bulacan" /\ s2 = "bacolod city" -> 21
      [] s1 = "san jose del monte bulacan" /\ s2 = "city of bacor" -> 20
      [] s1 = "san jose del monte bulacan" /\ s2 = "city of san jose" -> 21
      [] s1 = "san jose del monte bulacan" /\ s2 = "city of san jose del monte" -> 16
      [] s1 = "san jose del monte bulacan" /\ s2 = "municipality of san jose" -> 23
      [] s1 = "san jose del monte bulacan" /\ s2 = "quezon city" -> 22
      [] s1 = "san jose del monte bulacan" /\ s2 = "san jose" -> 18
      [] s1 = "san jose del monte bulacan" /\ s2 = "san jose city" -> 16
      [] s1 = "san-isidro" /\ s2 = "san isidro" -> 1
      [] s1 = "xyz" /\ s2 = "bacolod city" -> 12
      [] s1 = "xyz" /\ s2 = "cavite" -> 6
      [] s1 = "xyz" /\ s2 = "cebu" -> 4
      [] s1 = "xyz" /\ s2 = "city of bacor" -> 12
      [] s1 = "xyz" /\ s2 = "city of san jose" -> 15
      [] s1 = "xyz" /\ s2 = "city of san jose del monte" -> 25
      [] s1 = "xyz" /\ s2 = "municipality of san jose" -> 23
      [] s1 = "xyz" /\ s2 = "quezon city" -> 10
      [] s1 = "xyz" /\ s2 = "san jose" -> 8
      [] s1 = "xyz" /\ s2 = "san jose city" -> 13
      [] OTHER -> 0

\* `max(ratio, 0.85)` in ten-thousandths
SubstringBoost == 8500

\* The closing lines of _fuzzy_match without the substring boost.
fuzzy_score_no_boost(ratio, contained, max_len, lev_dist) ==
    IF max_len > 0
    THEN Max(ratio, ((max_len - lev_dist) * 10000 + max_len \div 2)
                       \div max_len)
    ELSE ratio

\* _fuzzy_match from `if query_norm in target_norm or target_norm in
\* query_norm` on: the ratio raised to 0.85 when one text contains the
\* other, then the better of it and round-to-nearest of
\* 1 - lev_dist / max_len when max_len > 0.
fuzzy_score(ratio, contained, max_len, lev_dist) ==
    IF max_len > 0
    THEN Max(IF contained THEN Max(ratio, SubstringBoost) ELSE ratio,
             ((max_len - lev_dist) * 10000 + max_len \div 2) \div max_len)
    ELSE IF contained THEN Max(ratio, SubstringBoost) ELSE ratio

\* _fuzzy_match on the two normalised texts.
fuzzy_match_norm(query_norm, target_norm) ==
    fuzzy_score(matcher_ratio(query_norm, target_norm),
                \/ IsSubstring(query_norm, target_norm)
                \/ IsSubstring(target_norm, query_norm),
                Max(StrLen(query_norm), StrLen(target_norm)),
                levenshtein_distance(query_norm, target_norm))

\* PSGCAPIClient._fuzzy_match(query, target) in ten-thousandths: the best
\* of the SequenceMatcher ratio, 0.85 when one normalised text contains
\* the other, and 1 - levenshtein / max_len.
fuzzy_match(query, target) ==
    fuzzy_match_norm(normalize_for_matching(query),
                     normalize_for_matching(target))


\* `score >= 0.70`
FuzzyThreshold == 7000

\* code[:n]
Take(code, n) == SubSeq(code, 1, IF Len(code) < n THEN Len(code) ELSE n)

\* code.startswith(prefix)
StartsWith(code, prefix) ==
    Len(prefix) <= Len(code) /\ SubSeq(code, 1, Len(prefix)) = prefix

\* The entry a search returns, in the shape of NoMatch.
Found(entry) ==
    [found |-> TRUE, name |-> entry.name, code |-> entry.code,
     zip_code |-> entry.zip_code]

RECURSIVE best_loop_last_of_ties(_, _, _, _, _)
RECURSIVE best_loop(_, _, _, _, _)

\* A faulty best-match loop: `score >= best_score`, so that of several
\* candidates with the best score the last one is kept.
best_loop_last_of_ties(scores, threshold, i, best_match, best_score) ==
    IF i > Len(scores) THEN best_match
    ELSE IF scores[i] >= best_score /\ scores[i] >= threshold
    THEN best_loop_last_of_ties(scores, threshold, i + 1, i, scores[i])
    ELSE best_loop_last_of_ties(scores, threshold, i + 1, best_match,
                                best_score)

\* The best-match loop of the searches and of find_best_match, from
\* candidate i on:
\*     if score > best_score and score >= threshold:
\*         best_score = score; best_match = candidate
\* scores[i] is the score of candidate i; the value is the position of
\* best_match after the loop, 0 for None.
best_loop(scores, threshold, i, best_match, best_score) ==
    IF i > Len(scores) THEN best_match
    ELSE IF scores[i] > best_score /\ scores[i] >= threshold
    THEN best_loop(scores, threshold, i + 1, i, scores[i])
    ELSE best_loop(scores, threshold, i + 1, best_match, best_score)

\* The scores _fuzzy_match gives the entries of `locations` for `query`.
FuzzyScores(locations, query) ==
    [i \in 1..Len(locations) |-> fuzzy_match(query, locations[i].name)]

\* The fuzzy loop of a search: best_match = None, best_score = 0.0, then
\* the loop over the locations.
BestFuzzy(locations, query) ==
    best_loop(FuzzyScores(locations, query), FuzzyThreshold, 1, 0, 0)

\* SequenceMatcher(None, query.lower(), candidate.lower()).ratio() * 100,
\* in hundredths.
sequence_ratio(query, candidate) ==
    CASE query = "Cavite" /\ candidate = "Cavite" -> 10000
      [] query = "Cavite" /\ candidate = "Cebu" -> 4000
      [] query = "Cavite" /\ candidate = "National Capital Region (NCR)" -> 2857
      [] query = "Cavite" /\ candidate = "City of Bacoor" -> 3000
      [] query = "Cavite" /\ candidate = "Bacolod City" -> 3333
      [] query = "Cavite" /\ candidate = "Quezon City" -> 3529
      [] query = "Cavite" /\ candidate = "City of San Jose del Monte" -> 2500
      [] query = "Cavite" /\ candidate = "Molino I" -> 1429
      [] query = "Cavite" /\ candidate = "San Isidro" -> 2500
      [] query = "Cavite" /\ candidate = "Barangay 1" -> 1250
      [] query = "Cavite" /\ candidate = "Barangay 2" -> 1250
      [] query = "Cavite" /\ candidate = "Barangay 12" -> 1176
      [] query = "Cavitte" /\ candidate = "Cavite" -> 9231
      [] query = "Cavitte" /\ candidate = "Cebu" -> 3636
      [] query = "Cavitte" /\ candidate = "National Capital Region (NCR)" -> 2778
      [] query = "Cavitte" /\ candidate = "City of Bacoor" -> 2857
      [] query = "Cavitte" /\ candidate = "Bacolod City" -> 3158
      [] query = "Cavitte" /\ candidate = "Quezon City" -> 3333
      [] query = "Cavitte" /\ candidate = "City of San Jose del Monte" -> 3030
      [] query = "Cavitte" /\ candidate = "Molino I" -> 1333
      [] query = "Cavitte" /\ candidate = "San Isidro" -> 2353
      [] query = "Cavitte" /\ candidate = "Barangay 1" -> 1176
      [] query = "Cavitte" /\ candidate = "Barangay 2" -> 1176
      [] query = "Cavitte" /\ candidate = "Barangay 12" -> 1111
      [] query = "NCR" /\ candidate = "Cavite" -> 2222
      [] query = "NCR" /\ candidate = "Cebu" -> 2857
      [] query = "NCR" /\ candidate = "National Capital Region (NCR)" -> 1875
      [] query = "NCR" /\ candidate = "City of Bacoor" -> 2353
      [] query = "NCR" /\ candidate = "Bacolod City" -> 1333
      [] query = "NCR" /\ candidate = "Quezon City" -> 2857
      [] query = "NCR" /\ candidate = "City of San Jose del Monte" -> 690
      [] query = "NCR" /\ candidate = "Molino I" -> 1818
      [] query = "NCR" /\ candidate = "San Isidro" -> 3077
      [] query = "NCR" /\ candidate = "Barangay 1" -> 1538
      [] query = "NCR" /\ candidate = "Barangay 2" -> 1538
      [] query = "NCR" /\ candidate = "Barangay 12" -> 1429
      [] query = "Ncr" /\ candidate = "Cavite" -> 2222
      [] query = "Ncr" /\ candidate = "Cebu" -> 2857
      [] query = "Ncr" /\ candidate = "National Capital Region (NCR)" -> 1875
      [] query = "Ncr" /\ candidate = "City of Bacoor" -> 2353
      [] query = "Ncr" /\ candidate = "Bacolod City" -> 1333
      [] query = "Ncr" /\ candidate = "Quezon City" -> 2857
      [] query = "Ncr" /\ candidate = "City of San Jose del Monte" -> 690
      [] query = "Ncr" /\ candidate = "Molino I" -> 1818
      [] query = "Ncr" /\ candidate = "San Isidro" -> 3077
      [] query = "Ncr" /\ candidate = "Barangay 1" -> 1538
      [] query = "Ncr" /\ candidate = "Barangay 2" -> 1538
      [] query = "Ncr" /\ candidate = "Barangay 12" -> 1429
      [] query = "Metro Manila" /\ candidate = "Cavite" -> 1111
      [] query = "Metro Manila" /\ candidate = "Cebu" -> 1250
      [] query = "Metro Manila" /\ candidate = "National Capital Region (NCR)" -> 976
      [] query = "Metro Manila" /\ candidate = "City of Bacoor" -> 1538
      [] query = "Metro Manila" /\ candidate = "Bacolod City" -> 833
      [] query = "Metro Manila" /\ candidate = "Quezon City" -> 1739
      [] query = "Metro Manila" /\ candidate = "City of San Jose del Monte" -> 2105
      [] query = "Metro Manila" /\ candidate = "Molino I" -> 4000
      [] query = "Metro Manila" /\ candidate = "San Isidro" -> 1818
      [] query = "Metro Manila" /\ candidate = "Barangay 1" -> 3636
      [] query = "Metro Manila" /\ candidate = "Barangay 2" -> 3636
      [] query = "Metro Manila" /\ candidate = "Barangay 12" -> 3478
      [] query = "National Capital Region" /\ candidate = "Cavite" -> 3448
      [] query = "National Capital Region" /\ candidate = "Cebu" -> 1481
      [] query = "National Capital Region" /\ candidate = "National Capital Region (NCR)" -> 8846
      [] query = "National Capital Region" /\ candidate = "City of Bacoor" -> 2703
      [] query = "National Capital Region" /\ candidate = "Bacolod City" -> 4000
      [] query = "National Capital Region" /\ candidate = "Quezon City" -> 3529
      [] query = "National Capital Region" /\ candidate = "City of San Jose del Monte" -> 2041
      [] query = "National Capital Region" /\ candidate = "Molino I" -> 1290
      [] query = "National Capital Region" /\ candidate = "San Isidro" -> 1818
      [] query = "National Capital Region" /\ candidate = "Barangay 1" -> 1818
      [] query = "National Capital Region" /\ candidate = "Barangay 2" -> 1818
      [] query = "National Capital Region" /\ candidate = "Barangay 12" -> 1765
      [] query = "Bacoor" /\ candidate = "Cavite" -> 1667
      [] query = "Bacoor" /\ candidate = "Cebu" -> 2000
      [] query = "Bacoor" /\ candidate = "National Capital Region (NCR)" -> 2286
      [] query = "Bacoor" /\ candidate = "City of Bacoor" -> 6000
      [] query = "Bacoor" /\ candidate = "Bacolod City" -> 5556
      [] query = "Bacoor" /\ candidate = "Quezon City" -> 1176
      [] query = "Bacoor" /\ candidate = "City of San Jose del Monte" -> 1875
      [] query = "Bacoor" /\ candidate = "Molino I" -> 2857
      [] query = "Bacoor" /\ candidate = "San Isidro" -> 2500
      [] query = "Bacoor" /\ candidate = "Barangay 1" -> 3750
      [] query = "Bacoor" /\ candidate = "Barangay 2" -> 3750
      [] query = "Bacoor" /\ candidate = "Barangay 12" -> 3529
      [] query = "Quezon Cty" /\ candidate = "Cavite" -> 1250
      [] query = "Quezon Cty" /\ candidate = "Cebu" -> 1429
      [] query = "Quezon Cty" /\ candidate = "National Capital Region (NCR)" -> 2564
      [] query = "Quezon Cty" /\ candidate = "City of Bacoor" -> 2500
      [] query = "Quezon Cty" /\ candidate = "Bacolod City" -> 4545
      [] query = "Quezon Cty" /\ candidate = "Quezon City" -> 9524
      [] query = "Quezon Cty" /\ candidate = "City of San Jose del Monte" -> 2222
      [] query = "Quezon Cty" /\ candidate = "Molino I" -> 3333
      [] query = "Quezon Cty" /\ candidate = "San Isidro" -> 2000
      [] query = "Quezon Cty" /\ candidate = "Barangay 1" -> 2000
      [] query = "Quezon Cty" /\ candidate = "Barangay 2" -> 2000
      [] query = "Quezon Cty" /\ candidate = "Barangay 12" -> 1905
      [] query = "Quezon City" /\ candidate = "Cavite" -> 3529
      [] query = "Quezon City" /\ candidate = "Cebu" -> 1333
      [] query = "Quezon City" /\ candidate = "National Capital Region (NCR)" -> 2500
      [] query = "Quezon City" /\ candidate = "City of Bacoor" -> 3200
      [] query = "Quezon City" /\ candidate = "Bacolod City" -> 5217
      [] query = "Quezon City" /\ candidate = "Quezon City" -> 10000
      [] query = "Quezon City" /\ candidate = "City of San Jose del Monte" -> 2162
      [] query = "Quezon City" /\ candidate = "Molino I" -> 4211
      [] query = "Quezon City" /\ candidate = "San Isidro" -> 2857
      [] query = "Quezon City" /\ candidate = "Barangay 1" -> 1905
      [] query = "Quezon City" /\ candidate = "Barangay 2" -> 1905
      [] query = "Quezon City" /\ candidate = "Barangay 12" -> 1818
      [] query = "City of San Jose del Monte Bulacan" /\ candidate = "Cavite" -> 2000
      [] query = "City of San Jose del Monte Bulacan" /\ candidate = "Cebu" -> 2105
      [] query = "City of San Jose del Monte Bulacan" /\ candidate = "National Capital Region (NCR)" -> 2857
      [] query = "City of San Jose del Monte Bulacan" /\ candidate = "City of Bacoor" -> 4583
      [] query = "City of San Jose del Monte Bulacan" /\ candidate = "Bacolod City" -> 1739
      [] query = "City of San Jose del Monte Bulacan" /\ candidate = "Quezon City" -> 1778
      [] query = "City of San Jose del Monte Bulacan" /\ candidate = "City of San Jose del Monte" -> 8667
      [] query = "City of San Jose del Monte Bulacan" /\ candidate = "Molino I" -> 1905
      [] query = "City of San Jose del Monte Bulacan" /\ candidate = "San Isidro" -> 2273
      [] query = "City of San Jose del Monte Bulacan" /\ candidate = "Barangay 1" -> 909
      [] query = "City of San Jose del Monte Bulacan" /\ candidate = "Barangay 2" -> 909
      [] query = "City of San Jose del Monte Bulacan" /\ candidate = "Barangay 12" -> 889
      [] query = "Molino" /\ candidate = "Cavite" -> 1667
      [] query = "Molino" /\ candidate = "National Capital Region (NCR)" -> 2286
      [] query = "Molino" /\ candidate = "City of Bacoor" -> 2000
      [] query = "Molino" /\ candidate = "Bacolod City" -> 3333
      [] query = "Molino" /\ candidate = "Quezon City" -> 2353
      [] query = "Molino" /\ candidate = "City of San Jose del Monte" -> 1875
      [] query = "Molino" /\ candidate = "Molino I" -> 8571
      [] query = "Molino" /\ candidate = "San Isidro" -> 1250
      [] query = "Molino" /\ candidate = "Barangay 1" -> 1250
      [] query = "Molino" /\ candidate = "Barangay 2" -> 1250
      [] query = "Molino" /\ candidate = "Barangay 12" -> 1176
      [] query = "Molino I" /\ candidate = "Cavite" -> 1429
      [] query = "Molino I" /\ candidate = "National Capital Region (NCR)" -> 2703
      [] query = "Molino I" /\ candidate = "City of Bacoor" -> 1818
      [] query = "Molino I" /\ candidate = "Bacolod City" -> 3000
      [] query = "Molino I" /\ candidate = "Quezon City" -> 2105
      [] query = "Molino I" /\ candidate = "City of San Jose del Monte" -> 1765
      [] query = "Molino I" /\ candidate = "Molino I" -> 10000
      [] query = "Molino I" /\ candidate = "San Isidro" -> 3333
      [] query = "Molino I" /\ candidate = "Barangay 1" -> 2222
      [] query = "Molino I" /\ candidate = "Barangay 2" -> 2222
      [] query = "Molino I" /\ candidate = "Barangay 12" -> 2105
      [] query = "Barangay" /\ candidate = "Cavite" -> 1429
      [] query = "Barangay" /\ candidate = "Cebu" -> 1667
      [] query = "Barangay" /\ candidate = "National Capital Region (NCR)" -> 1622
      [] query = "Barangay" /\ candidate = "City of Bacoor" -> 2727
      [] query = "Barangay" /\ candidate = "Bacolod City" -> 3000
      [] query = "Barangay" /\ candidate = "Quezon City" -> 2105
      [] query = "Barangay" /\ candidate = "City of San Jose del Monte" -> 1176
      [] query = "Barangay" /\ candidate = "Molino I" -> 1250
      [] query = "Barangay" /\ candidate = "San Isidro" -> 2222
      [] query = "Barangay" /\ candidate = "Barangay 1" -> 8889
      [] query = "Barangay" /\ candidate = "Barangay 2" -> 8889
      [] query = "Barangay" /\ candidate = "Barangay 12" -> 8421
      [] query = "Barangay 3" /\ candidate = "Cavite" -> 1250
      [] query = "Barangay 3" /\ candidate = "Cebu" -> 1429
      [] query = "Barangay 3" /\ candidate = "National Capital Region (NCR)" -> 2051
      [] query = "Barangay 3" /\ candidate = "City of Bacoor" -> 2500
      [] query = "Barangay 3" /\ candidate = "Bacolod City" -> 2727
      [] query = "Barangay 3" /\ candidate = "Quezon City" -> 1905
      [] query = "Barangay 3" /\ candidate = "City of San Jose del Monte" -> 1667
      [] query = "Barangay 3" /\ candidate = "Molino I" -> 2222
      [] query = "Barangay 3" /\ candidate = "San Isidro" -> 3000
      [] query = "Barangay 3" /\ candidate = "Barangay 1" -> 9000
      [] query = "Barangay 3" /\ candidate = "Barangay 2" -> 9000
      [] query = "Barangay 3" /\ candidate = "Barangay 12" -> 8571
      [] query = "Xyz" /\ candidate = "City of Bacoor" -> 1176
      [] query = "Xyz" /\ candidate = "Bacolod City" -> 1333
      [] query = "Xyz" /\ candidate = "Quezon City" -> 1429
      [] query = "Xyz" /\ candidate = "City of San Jose del Monte" -> 690
      [] query = "Xyz" /\ candidate = "Barangay 1" -> 1538
      [] query = "Xyz" /\ candidate = "Barangay 2" -> 1538
      [] query = "Xyz" /\ candidate = "Barangay 12" -> 1429
      [] OTHER -> 0

\* The scores of find_best_match for the candidates.
RatioScores(query, candidates) ==
    [i \in 1..Len(candidates) |-> sequence_ratio(query, candidates[i])]

\* SmartTypoHandler.find_best_match(query, candidates, threshold) without
\* RapidFuzz (the difflib loop); min_score and threshold in percent,
\* threshold 0 for None; the result is (match, score) or None.
NoBestMatch == [found |-> FALSE, match |-> "", score |-> 0]
find_best_match(min_score, query, candidates, threshold) ==
    LET limit == IF threshold = 0 THEN min_score ELSE threshold
        scores == RatioScores(query, candidates)
        best == best_loop(scores, 100 * limit, 1, 0, 0)
    IN  IF query = "" \/ candidates = << >> \/ best = 0 THEN NoBestMatch
        ELSE [found |-> TRUE, match |-> candidates[best],
              score |-> scores[best]]

\* list(set(variations)): the variations of `name` in one of the orders
\* the set can be iterated in.
VariationOrders(name) ==
    LET variations == city_name_variations(name)
        n == Cardinality(variations)
    IN  { order \in [1..n -> variations] :
            \A v \in variations : \E i \in 1..n : order[i] = v }

\* The pairs (location, variation) with equal names, by position.
ExactPairs(locations, name_variations) ==
    { p \in (1..Len(locations)) \X (1..Len(name_variations)) :
        psgc_normalize_name(locations[p[1]].name) = name_variations[p[2]] }

\* A faulty exact-match loop: for each variation, for each location.
exact_match_variation_first(locations, name_variations) ==
    LET pairs == ExactPairs(locations, name_variations)
        first == CHOOSE p \in pairs :
                    \A q \in pairs :
                        p[2] < q[2] \/ (p[2] = q[2] /\ p[1] <= q[1])
    IN  IF pairs = {} THEN 0 ELSE first[1]

\* The exact-match loop of search_city_municipality: for each location, for
\* each variation, return the location at the first equality; the position
\* of that location, 0 if the loops end.
exact_match(locations, name_variations) ==
    LET pairs == ExactPairs(locations, name_variations)
        first == CHOOSE p \in pairs :
                    \A q \in pairs :
                        p[1] < q[1] \/ (p[1] = q[1] /\ p[2] <= q[2])
    IN  IF pairs = {} THEN 0 ELSE first[1]

\* PSGCAPIClient.search_province(name); provinces is get_all_provinces().
search_province(name, provinces) ==
    LET normalized_query == psgc_normalize_name(name)
        exact(p) == psgc_normalize_name(p.name) = normalized_query
        e == FirstHit({ i \in 1..Len(provinces) : exact(provinces[i]) })
        f == BestFuzzy(provinces, normalized_query)
    IN  IF name = "" THEN NoMatch
        ELSE IF e # 0 THEN Found(provinces[e])
        ELSE IF f # 0 THEN Found(provinces[f])
        ELSE NoMatch

\* A faulty nationwide search: the substring loop runs before the
\* exact-match loop.
nationwide_city_search_substring_first(name, all_locations, name_variations) ==
    LET normalized_query == psgc_normalize_name(name)
        substring(loc) ==
            LET normalized_location == psgc_normalize_name(loc.name)
            IN  /\ StrLen(normalized_query) >= 5
                /\ \/ IsSubstring(normalized_query, normalized_location)
                   \/ /\ IsSubstring(normalized_location, normalized_query)
                      /\ 2 * StrLen(normalized_location) > StrLen(normalized_query)
        e == exact_match(all_locations, name_variations)
        s == FirstHit({ i \in 1..Len(all_locations) : substring(all_locations[i]) })
        f == BestFuzzy(all_locations, normalized_query)
    IN  IF s # 0 THEN Found(all_locations[s])
        ELSE IF e # 0 THEN Found(all_locations[e])
        ELSE IF f # 0 THEN Found(all_locations[f])
        ELSE NoMatch

\* The nationwide part of search_city_municipality: exact match on a name
\* variation, guarded substring match, fuzzy match, over all_locations.
nationwide_city_search(name, all_locations, name_variations) ==
    LET normalized_query == psgc_normalize_name(name)
        substring(loc) ==
            LET normalized_location == psgc_normalize_name(loc.name)
            IN  /\ StrLen(normalized_query) >= 5
                /\ \/ IsSubstring(normalized_query, normalized_location)
                   \/ /\ IsSubstring(normalized_location, normalized_query)
                      /\ 2 * StrLen(normalized_location) > StrLen(normalized_query)
        e == exact_match(all_locations, name_variations)
        s == FirstHit({ i \in 1..Len(all_locations) : substring(all_locations[i]) })
        f == BestFuzzy(all_locations, normalized_query)
    IN  IF e # 0 THEN Found(all_locations[e])
        ELSE IF s # 0 THEN Found(all_locations[s])
        ELSE IF f # 0 THEN Found(all_locations[f])
        ELSE NoMatch

\* The province-filtered part of search_city_municipality: the entry found
\* among the cities whose code starts with province_code[:4], NoMatch if
\* none.
scoped_city_search(name, province_code, all_locations, name_variations) ==
    LET normalized_query == psgc_normalize_name(name)
        in_province(loc) == StartsWith(loc.code, Take(province_code, 4))
        filtered_locations == SelectSeq(all_locations, in_province)
        substring(loc) ==
            LET normalized_location == psgc_normalize_name(loc.name)
            IN  \/ IsSubstring(normalized_query, normalized_location)
                \/ IsSubstring(normalized_location, normalized_query)
        e == exact_match(filtered_locations, name_variations)
        s == FirstHit({ i \in 1..Len(filtered_locations) : substring(filtered_locations[i]) })
        f == BestFuzzy(filtered_locations, normalized_query)
    IN  IF e # 0 THEN Found(filtered_locations[e])
        ELSE IF s # 0 THEN Found(filtered_locations[s])
        ELSE IF f # 0 THEN Found(filtered_locations[f])
        ELSE NoMatch

\* search_city_municipality without the nationwide retry after a failed
\* province-filtered search.
search_city_municipality_scoped_only(name, province_code, all_locations, name_variations) ==
    IF name = "" THEN NoMatch
    ELSE IF province_code # NoCode
    THEN scoped_city_search(name, province_code, all_locations,
                            name_variations)
    ELSE nationwide_city_search(name, all_locations, name_variations)

\* PSGCAPIClient.search_city_municipality(name, province_code);
\* all_locations is get_all_cities(), province_code NoCode for None,
\* name_variations the list _get_city_name_variations(name) returned.
search_city_municipality(name, province_code, all_locations, name_variations) ==
    IF name = "" THEN NoMatch
    ELSE IF province_code # NoCode
            /\ scoped_city_search(name, province_code, all_locations,
                                  name_variations).found
    THEN scoped_city_search(name, province_code, all_locations,
                            name_variations)
    ELSE nationwide_city_search(name, all_locations, name_variations)

\* The names search_barangay asks /barangays/{..} for when a city code is
\* given: the name itself and, unless it has a hyphen, the name behind each
\* of the prefixes "Funda-", "San-", "Santa-", "Santo-".
barangay_variations(name) ==
    CASE name = "Molino" ->
            << "Molino", "Funda-Molino", "San-Molino", "Santa-Molino",
               "Santo-Molino" >>
      [] name = "Isidro" ->
            << "Isidro", "Funda-Isidro", "San-Isidro", "Santa-Isidro",
               "Santo-Isidro" >>
      [] OTHER -> << name >>

\* GET /barangays/{key}: `directory` is the set of barangays psgc.cloud
\* serves under a key; the answer is the entry of that key, NoMatch for a
\* 404, an empty body or a failed call.
direct_lookup(directory, key) ==
    IF \E e \in directory : e.key = key
    THEN Found(CHOOSE e \in directory : e.key = key)
    ELSE NoMatch

\* PSGCAPIClient.search_barangay(name, city_municipality_code).
\* city_barangays is the answer of
\* /cities-municipalities/{code}/barangays ([ok, data]; ok is FALSE for a
\* status other than 200 or a failed call), directory what /barangays/{key}
\* serves.
search_barangay(name, city_municipality_code, city_barangays, directory) ==
    LET normalized_query == psgc_normalize_name(name)
        has_city == city_municipality_code # NoCode
        exact(b) == psgc_normalize_name(b.name) = normalized_query
        e == FirstHit({ i \in 1..Len(city_barangays.data) : exact(city_barangays.data[i]) })
        f == BestFuzzy(city_barangays.data, normalized_query)
        in_city(b) == StartsWith(b.code, Take(city_municipality_code, 6))
        direct == direct_lookup(directory, name)
        variations == barangay_variations(name)
        served(i) == direct_lookup(directory, variations[i])
        compound == { i \in 1..Len(variations) :
                        served(i).found /\ in_city(served(i)) }
    IN  IF name = "" THEN NoMatch
        ELSE IF has_city /\ city_barangays.ok /\ e # 0
        THEN Found(city_barangays.data[e])
        ELSE IF has_city /\ city_barangays.ok /\ f # 0
        THEN Found(city_barangays.data[f])
        ELSE IF direct.found /\ (~has_city \/ in_city(direct))
        THEN direct
        ELSE IF has_city /\ compound # {}
        THEN served(CHOOSE i \in compound : \A j \in compound : i <= j)
        ELSE NoMatch

(***************************************************************************)
(* LLMAddressValidatorAgent._call_tool: verify_geographic_hierarchy.       *)
(***************************************************************************)
\* The dict the tool returns for parameters province, city, barangay.
\* provinces and all_locations are the lists of the PSGC client,
\* city_barangays[code] the answer of the barangay list of city `code`,
\* directory what /barangays/{key} serves.
verify_geographic_hierarchy(province, city, barangay, provinces, all_locations, name_variations, city_barangays, directory) ==
    LET p == search_province(province, provinces)
        c == IF p.found
             THEN search_city_municipality(city, p.code, all_locations,
                                           name_variations)
             ELSE NoMatch
        b == IF p.found /\ c.found /\ barangay # ""
             THEN search_barangay(barangay, c.code, city_barangays[c.code],
                                  directory)
             ELSE NoMatch
        details == [province_valid |-> p.found,
                    city_valid |-> c.found,
                    barangay_valid |-> b.found,
                    city_in_province |-> c.found,
                    barangay_in_city |-> b.found]
        all_valid == /\ details.province_valid
                     /\ details.city_valid
                     /\ details.city_in_province
                     /\ (barangay = "" \/ details.barangay_valid)
    IN  [success |-> TRUE, hierarchy_valid |-> all_valid, details |-> details]

(***************************************************************************)
(* The client searches and the hierarchy tool as calls of their own: one   *)
(* call per behaviour, its arguments and the answers of psgc.cloud drawn   *)
(* from the sets below.                                                    *)
(***************************************************************************)
\* get_all_provinces(): the list, or [] when the fetch failed.
AllProvinces ==
    << [name |-> "Cavite", code |-> <<0,4,2,1,0,0,0,0,0,0>>, zip_code |-> ""],
       [name |-> "Cebu", code |-> <<0,7,2,2,0,0,0,0,0,0>>, zip_code |-> ""] >>
ProvinceListAnswers == { << >>, AllProvinces }

\* get_all_cities(): the list in one order or the other, or [] when the
\* fetch failed.  Bacolod City and Quezon City lie in no province of the
\* model.
AllCities ==
    << [name |-> "City of Bacoor", code |-> <<0,4,2,1,0,3,0,0,0,0>>,
        zip_code |-> "4102"],
       [name |-> "Bacolod City", code |-> <<0,6,3,0,2,0,0,0,0,0>>,
        zip_code |-> ""],
       [name |-> "Quezon City", code |-> <<1,3,8,1,3,0,0,0,0,0>>,
        zip_code |-> ""] >>
AllCitiesReversed == << AllCities[3], AllCities[2], AllCities[1] >>
CityListAnswers == { << >>, AllCities, AllCitiesReversed }

\* The barangays psgc.cloud lists under a city.
AllBarangays ==
    << [name |-> "Molino I", code |-> <<0,4,2,1,0,3,0,2,9,0>>, zip_code |-> ""],
       [name |-> "San Isidro", code |-> <<1,3,8,1,3,0,0,4,1,0>>,
        zip_code |-> ""] >>

\* The answer of /cities-municipalities/{code}/barangays: the barangays
\* under the city when the call succeeds.
barangays_of(code, ok) ==
    LET in_city(b) == StartsWith(b.code, Take(code, 6))
    IN  [ok |-> ok, data |-> IF ok THEN SelectSeq(AllBarangays, in_city)
                             ELSE << >>]

\* What /barangays/{key} can serve: a Molino of Quezon City, a San-Isidro
\* of Bacoor.
Directories ==
    SUBSET { [key |-> "Molino", name |-> "Molino",
              code |-> <<1,3,8,1,3,0,0,1,2,0>>, zip_code |-> ""],
             [key |-> "San-Isidro", name |-> "San-Isidro",
              code |-> <<0,4,2,1,0,3,0,4,1,0>>, zip_code |-> ""] }

\* A registry in which one city goes by one of the four forms of its name,
\* behind a city whose name contains that name; and one in which a city
\* and a municipality of two provinces share the base name.
SanJoseForms ==
    {"San Jose", "City of San Jose", "San Jose City",
     "Municipality of San Jose"}
NuevaEcija == <<0,3,4,9,0,0,0,0,0,0>>
SanJoseDelMonte ==
    [name |-> "City of San Jose del Monte", code |-> <<0,3,1,4,2,0,0,0,0,0>>,
     zip_code |-> ""]
san_jose(form) ==
    [name |-> form, code |-> <<0,3,4,9,2,6,0,0,0,0>>, zip_code |-> ""]
SanJoseRegistries ==
    { << SanJoseDelMonte, san_jose(form) >> : form \in SanJoseForms }
    \cup
    { << san_jose("San Jose City"),
         [name |-> "Municipality of San Jose",
          code |-> <<0,3,4,9,2,7,0,0,0,0>>, zip_code |-> ""] >> }

\* The codes a search is scoped with: none, Cavite or Cebu for a city,
\* none, Bacoor or Quezon City for a barangay.
ProvinceCodes == { NoCode, AllProvinces[1].code, AllProvinces[2].code }
CityCodes == { NoCode, AllCities[1].code, AllCities[3].code }

\* The calls.
ToolCalls ==
    { [op |-> "search_province", done |-> FALSE, name |-> n, provinces |-> l] :
        n \in {"", "...", "Cavite", "Cavitte", "Cebu", "Xyz"},
        l \in ProvinceListAnswers }
    \cup
    UNION { { [op |-> "search_city_municipality", done |-> FALSE,
                name |-> n, province_code |-> p, all_locations |-> l,
                name_variations |-> v] :
                p \in ProvinceCodes, l \in CityListAnswers,
                v \in VariationOrders(n) } :
            n \in {"", "...", "Bacoor", "Bacor", "Baco", "Quezon City", "Xyz"} }
    \cup
    UNION { { [op |-> "search_city_municipality", done |-> FALSE,
                name |-> n, province_code |-> p, all_locations |-> l,
                name_variations |-> v] :
                p \in {NoCode, NuevaEcija}, l \in SanJoseRegistries,
                v \in VariationOrders(n) } :
            n \in SanJoseForms }
    \cup
    { [op |-> "search_barangay", done |-> FALSE, name |-> n,
       city_municipality_code |-> c, ok |-> ok, directory |-> d] :
        n \in {"", "Molino", "Isidro"}, c \in CityCodes, ok \in BOOLEAN,
        d \in Directories }
    \cup
    UNION { { [op |-> "verify_geographic_hierarchy", done |-> FALSE,
                province |-> p, city |-> c, barangay |-> b, ok |-> ok,
                directory |-> d, name_variations |-> v] :
                p \in {"Cavite", "Xyz"}, b \in {"", "Molino", "Isidro"},
                ok \in BOOLEAN, d \in Directories,
                v \in VariationOrders(c) } :
            c \in {"Bacoor", "Quezon City", "Xyz"} }

\* Candidate lists and calls of SmartTypoHandler.find_best_match.
CandidateLists ==
    { << >>,
      << "Barangay 1", "Barangay 2", "Barangay 12" >>,
      << "Barangay 2", "Barangay 1" >>,
      << "Barangay 12", "Barangay 2", "Barangay 1" >> }
BestMatchCalls ==
    { [op |-> "find_best_match", done |-> FALSE, min_score |-> m,
       query |-> q, candidates |-> c, threshold |-> t] :
        m \in {80, 85}, q \in {"", "Barangay", "Barangay 3", "Xyz"},
        c \in CandidateLists, t \in {0, 80, 95} }

(***************************************************************************)
(* SmartTypoHandler: corrections of the parsed names from the PSGC lists.  *)
(* The handler is modelled as it runs without the optional RapidFuzz and   *)
(* phonetics packages: an exact case-insensitive match, then the difflib   *)
(* loop of find_best_match.                                                *)
(***************************************************************************)
\* SmartTypoHandler(min_score=80) of the graph orchestrator, and
\* SmartTypoHandler(min_score=85) of AddressValidator.
AgentMinScore == 80
ValidatorMinScore == 85

\* [p['name'] for p in provinces]
names_of(entries) == [i \in 1..Len(entries) |-> entries[i].name]

\* `for x in candidates: if x.lower() == name.lower(): return x, 100.0`,
\* then find_best_match(name, candidates).
correct_name(min_score, name, candidates) ==
    LET exact == FirstHit({ i \in 1..Len(candidates) :
                              Lower(candidates[i]) = Lower(name) })
    IN  IF exact # 0
        THEN [found |-> TRUE, match |-> candidates[exact], score |-> 10000]
        ELSE find_best_match(min_score, name, candidates, 0)

\* SmartTypoHandler.correct_province; provinces is get_all_provinces().
correct_province(min_score, province_name, provinces) ==
    IF province_name = "" THEN NoBestMatch
    ELSE correct_name(min_score, province_name, names_of(provinces))

\* SmartTypoHandler.correct_city; cities is get_all_cities().  With a
\* province code the candidates are the cities whose code starts with its
\* first four digits.
correct_city(min_score, city_name, cities, province_code) ==
    LET in_province(c) == StartsWith(c.code, Take(province_code, 4))
        candidates == IF province_code # NoCode
                      THEN names_of(SelectSeq(cities, in_province))
                      ELSE names_of(cities)
    IN  IF city_name = "" THEN NoBestMatch
        ELSE correct_name(min_score, city_name, candidates)

\* SmartTypoHandler.correct_barangay; fetched is the answer of
\* /cities-municipalities/{city_code}/barangays.
correct_barangay(min_score, barangay_name, city_code, fetched) ==
    IF barangay_name = "" \/ city_code = NoCode THEN NoBestMatch
    ELSE IF ~fetched.ok \/ fetched.data = << >> THEN NoBestMatch
    ELSE correct_name(min_score, barangay_name, names_of(fetched.data))

\* The code of the first province whose name equals `name` but for case,
\* None without one.
province_code_of(provinces, name) ==
    LET hit == FirstHit({ i \in 1..Len(provinces) :
                            Lower(provinces[i].name) = Lower(name) })
    IN  IF name = "" \/ hit = 0 THEN NoCode ELSE provinces[hit].code

\* "City name standardized from '{original}' to official name '{corrected}'"
CityStandardized(original, corrected) ==
    [kind |-> "city_standardized", comp |-> original, name |-> corrected]

\* `if corrected and corrected != parsed_address.province:
\*      parsed_address.province = corrected`
with_province(parsed, corrected) ==
    IF parsed.province # "" /\ corrected.found
       /\ corrected.match # parsed.province
    THEN [parsed EXCEPT !.province = corrected.match]
    ELSE parsed

\* The same for the city, with the suggestion for a city name that became
\* more than five characters shorter.
with_city(parsed, corrected) ==
    IF parsed.city # "" /\ corrected.found /\ corrected.match # parsed.city
    THEN [parsed |-> [parsed EXCEPT !.city = corrected.match],
          suggestions |->
             IF StrLen(parsed.city) > StrLen(corrected.match) + 5
             THEN << CityStandardized(parsed.city, corrected.match) >>
             ELSE << >>]
    ELSE [parsed |-> parsed, suggestions |-> << >>]

\* The same for the barangay, when a city code was found.
with_barangay(step, city_code, corrected) ==
    IF step.parsed.barangay # "" /\ city_code # NoCode /\ corrected.found
       /\ corrected.match # step.parsed.barangay
    THEN [step EXCEPT !.parsed.barangay = corrected.match]
    ELSE step

\* The city step of apply_corrections on the address the province step
\* left: the province code is that of the province of the same name.
correct_city_of(min_score, parsed, provinces, cities) ==
    with_city(parsed,
              correct_city(min_score, parsed.city, cities,
                           province_code_of(provinces, parsed.province)))

\* The province and city steps of apply_corrections: the address with the
\* two names corrected, and the suggestions.
correct_province_and_city(min_score, parsed, provinces, cities) ==
    correct_city_of(
        min_score,
        with_province(parsed,
                      correct_province(min_score, parsed.province, provinces)),
        provinces, cities)

\* The city code the barangay step works with: that of the city of the
\* same name, else that of the city search_city_municipality finds.
city_code_of(parsed, provinces, cities, name_variations) ==
    LET exact == FirstHit({ i \in 1..Len(cities) :
                              Lower(cities[i].name) = Lower(parsed.city) })
    IN  IF parsed.city = "" THEN NoCode
        ELSE IF exact # 0 THEN cities[exact].code
        ELSE search_city_municipality(
                 parsed.city, province_code_of(provinces, parsed.province),
                 cities, name_variations).code

\* The barangay step of apply_corrections for the city code found.
correct_barangay_of(min_score, step, city_code, ok) ==
    with_barangay(step, city_code,
                  correct_barangay(min_score, step.parsed.barangay, city_code,
                                   barangays_of(city_code, ok)))

\* The barangay step of apply_corrections on what the province and city
\* steps left.
correct_barangay_in(min_score, step, provinces, cities, name_variations, ok) ==
    correct_barangay_of(
        min_score, step,
        city_code_of(step.parsed, provinces, cities, name_variations), ok)

\* SmartTypoHandler.apply_corrections(parsed_address, psgc_client): the
\* pair (parsed_address, suggestions).  name_variations is the order in
\* which search_city_municipality tries the variations of the city, ok
\* whether the barangays of the city could be fetched.
apply_corrections(min_score, parsed, provinces, cities, name_variations, ok) ==
    correct_barangay_in(
        min_score,
        correct_province_and_city(min_score, parsed, provinces, cities),
        provinces, cities, name_variations, ok)

\* get_all_cities() for the handler: the cities of the model and San Jose
\* del Monte.
HandlerCities == AllCities \o << SanJoseDelMonte >>

\* db.get_delivery_history(address) for the calls of _check_delivery_history
\* alone: up to MaxHistory rows, most recent first.
RecordedHistories == UNION { [1..n -> Statuses] : n \in 0..MaxHistory }

\* _check_delivery_history on a state with or without a formatted address.
DeliveryCalls ==
    { [op |-> "check_delivery_history", done |-> FALSE, db |-> d,
       formatted_address |-> f, original_history |-> oh,
       formatted_history |-> fh] :
        d \in BOOLEAN,
        f \in {NoText, << "12 Main St", "Molino I", "City Of Bacoor",
                          "Cavite", "PH" >>},
        oh \in RecordedHistories, fh \in RecordedHistories }

\* The (query, target) pairs _fuzzy_match is called on.
FuzzyPairs ==
    {<<"", "">>,
     <<"", "Cavite">>,
     <<"Baco", "Baco">>,
     <<"Bacolod City", "Bacolod City">>,
     <<"Bacoor", "Bacoor">>,
     <<"Bacor", "Bacor">>,
     <<"Cavite", "">>,
     <<"Cavite", "Cavite">>,
     <<"Cavitte", "Cavitte">>,
     <<"Cebu", "Cebu">>,
     <<"City of Bacoor", "City of Bacoor">>,
     <<"City of San Jose", "City of San Jose">>,
     <<"City of San Jose del Monte", "City of San Jose del Monte">>,
     <<"City of San Jose del Monte Bulacan", "City of San Jose del Monte Bulacan">>,
     <<"Isidro", "Isidro">>,
     <<"Molino", "Molino">>,
     <<"Molino I", "Molino I">>,
     <<"Municipality of San Jose", "Municipality of San Jose">>,
     <<"Quezon City", "Quezon City">>,
     <<"Quezon Cty", "Quezon Cty">>,
     <<"San Isidro", "San Isidro">>,
     <<"San Jose", "San Jose">>,
     <<"San Jose City", "San Jose City">>,
     <<"San-Isidro", "San Isidro">>,
     <<"San-Isidro", "San-Isidro">>,
     <<"Xyz", "Xyz">>,
     <<"baco", "Bacolod City">>,
     <<"baco", "City of Bacoor">>,
     <<"baco", "City of San Jose">>,
     <<"baco", "City of San Jose del Monte">>,
     <<"baco", "Municipality of San Jose">>,
     <<"baco", "Quezon City">>,
     <<"baco", "San Jose">>,
     <<"baco", "San Jose City">>,
     <<"bacoor", "Bacolod City">>,
     <<"bacoor", "City of Bacoor">>,
     <<"bacoor", "City of San Jose">>,
     <<"bacoor", "City of San Jose del Monte">>,
     <<"bacoor", "Municipality of San Jose">>,
     <<"bacoor", "Quezon City">>,
     <<"bacoor", "San Jose">>,
     <<"bacoor", "San Jose City">>,
     <<"bacor", "Bacolod City">>,
     <<"bacor", "City of Bacoor">>,
     <<"bacor", "City of San Jose">>,
     <<"bacor", "City of San Jose del Monte">>,
     <<"bacor", "Municipality of San Jose">>,
     <<"bacor", "Quezon City">>,
     <<"bacor", "San Jose">>,
     <<"bacor", "San Jose City">>,
     <<"cavite", "Cavite">>,
     <<"cavite", "Cebu">>,
     <<"cavitte", "Cavite">>,
     <<"cavitte", "Cebu">>,
     <<"cebu", "Cavite">>,
     <<"cebu", "Cebu">>,
     <<"isidro", "Molino">>,
     <<"isidro", "Molino I">>,
     <<"isidro", "San Isidro">>,
     <<"isidro", "San-Isidro">>,
     <<"molino", "Molino">>,
     <<"molino", "Molino I">>,
     <<"molino", "San Isidro">>,
     <<"molino", "San-Isidro">>,
     <<"quezon city", "Bacolod City">>,
     <<"quezon city", "City of Bacoor">>,
     <<"quezon city", "City of San Jose">>,
     <<"quezon city", "City of San Jose del Monte">>,
     <<"quezon city", "Municipality of San Jose">>,
     <<"quezon city", "Quezon City">>,
     <<"quezon city", "San Jose">>,
     <<"quezon city", "San Jose City">>,
     <<"quezon cty", "Bacolod City">>,
     <<"quezon cty", "City of Bacoor">>,
     <<"quezon cty", "City of San Jose">>,
     <<"quezon cty", "City of San Jose del Monte">>,
     <<"quezon cty", "Municipality of San Jose">>,
     <<"quezon cty", "Quezon City">>,
     <<"quezon cty", "San Jose">>,
     <<"quezon cty", "San Jose City">>,
     <<"san jose", "Bacolod City">>,
     <<"san jose", "City of Bacoor">>,
     <<"san jose", "City of San Jose">>,
     <<"san jose", "City of San Jose del Monte">>,
     <<"san jose", "Municipality of San Jose">>,
     <<"san jose", "Quezon City">>,
     <<"san jose", "San Jose">>,
     <<"san jose", "San Jose City">>,
     <<"san jose city", "Bacolod City">>,
     <<"san jose city", "City of Bacoor">>,
     <<"san jose city", "City of San Jose">>,
     <<"san jose city", "City of San Jose del Monte">>,
     <<"san jose city", "Municipality of San Jose">>,
     <<"san jose city", "Quezon City">>,
     <<"san jose city", "San Jose">>,
     <<"san jose city", "San Jose City">>,
     <<"san jose del monte bulacan", "Bacolod City">>,
     <<"san jose del monte bulacan", "City of Bacoor">>,
     <<"san jose del monte bulacan", "City of San Jose">>,
     <<"san jose del monte bulacan", "City of San Jose del Monte">>,
     <<"san jose del monte bulacan", "Municipality of San Jose">>,
     <<"san jose del monte bulacan", "Quezon City">>,
     <<"san jose del monte bulacan", "San Jose">>,
     <<"san jose del monte bulacan", "San Jose City">>,
     <<"xyz", "Bacolod City">>,
     <<"xyz", "Cavite">>,
     <<"xyz", "Cebu">>,
     <<"xyz", "City of Bacoor">>,
     <<"xyz", "City of San Jose">>,
     <<"xyz", "City of San Jose del Monte">>,
     <<"xyz", "Municipality of San Jose">>,
     <<"xyz", "Quezon City">>,
     <<"xyz", "San Jose">>,
     <<"xyz", "San Jose City">>}

FuzzyMatchCalls ==
    { [op |-> "fuzzy_match", done |-> FALSE, query |-> p[1], target |-> p[2]] :
        p \in FuzzyPairs }

SearchInit ==
    /\ state = initial_state
    /\ pc = "tool"
    /\ gmaps_validator = FALSE
    /\ db_available = FALSE
    /\ philatlas_client = "None"
    /\ visited = << >>
    /\ response = NoResponse
    /\ tool \in ToolCalls \cup BestMatchCalls \cup FuzzyMatchCalls
                 \cup DeliveryCalls

\* The call returns `result`.
Returned(result) ==
    /\ tool' = [op |-> tool.op, done |-> TRUE, call |-> tool,
                result |-> result]
    /\ UNCHANGED << state, pc, config, visited, response >>

SearchProvince ==
    /\ tool.op = "search_province" /\ ~tool.done
    /\ Returned(search_province(tool.name, tool.provinces))

SearchCityMunicipality ==
    /\ tool.op = "search_city_municipality" /\ ~tool.done
    /\ Returned(search_city_municipality(tool.name, tool.province_code,
                                         tool.all_locations,
                                         tool.name_variations))

SearchBarangay ==
    /\ tool.op = "search_barangay" /\ ~tool.done
    /\ Returned(search_barangay(
           tool.name, tool.city_municipality_code,
           barangays_of(tool.city_municipality_code, tool.ok),
           tool.directory))

VerifyGeographicHierarchy ==
    /\ tool.op = "verify_geographic_hierarchy" /\ ~tool.done
    /\ Returned(verify_geographic_hierarchy(
           tool.province, tool.city, tool.barangay, AllProvinces, AllCities,
           tool.name_variations,
           [c \in CityCodes |-> barangays_of(c, tool.ok)], tool.directory))

FindBestMatch ==
    /\ tool.op = "find_best_match" /\ ~tool.done
    /\ Returned(find_best_match(tool.min_score, tool.query, tool.candidates,
                                tool.threshold))

FuzzyMatch ==
    /\ tool.op = "fuzzy_match" /\ ~tool.done
    /\ Returned(fuzzy_match(tool.query, tool.target))

CheckDeliveryHistory ==
    /\ tool.op = "check_delivery_history" /\ ~tool.done
    /\ Returned(check_delivery_history(
                   [initial_state EXCEPT
                      !.formatted_address = tool.formatted_address],
                   tool.db, tool.original_history, tool.formatted_history))

SearchNext ==
    \/ FindBestMatch
    \/ CheckDeliveryHistory
    \/ FuzzyMatch
    \/ SearchProvince
    \/ SearchCityMunicipality
    \/ SearchBarangay
    \/ VerifyGeographicHierarchy

SearchSpec == SearchInit /\ [][SearchNext]_vars

(***************************************************************************)
(* AddressValidator.validate_address (utils/validator.py): the same stages *)
(* as one coroutine over a dict, temp_data, that each stage updates with   *)
(* the dict the stage returns.  In this specification `state` is           *)
(* temp_data together with the local `parsed`, and pc the step of          *)
(* validate_address that runs next.                                        *)
(***************************************************************************)
\* AddressParser.parse(text) for AddressValidator: names as they are
\* listed, misspelt, or given by an alias.
ValidatorParsed ==
    [province : {"", "Cavite", "Cavitte", "NCR", "National Capital Region"},
     city : {"", "Bacoor", "City of San Jose del Monte Bulacan"},
     barangay : {"", "Molino"}, street_address : {"", "12 Main St"},
     postal_code : {"", "4102"}]

\* get_all_provinces() for the handler: the provinces of the model, alone
\* or followed by an entry for the capital region.
CapitalRegion ==
    [name |-> "National Capital Region (NCR)",
     code |-> <<1,3,0,0,0,0,0,0,0,0>>, zip_code |-> ""]
HandlerProvinceLists == { AllProvinces, AllProvinces \o << CapitalRegion >> }

\* No address has been parsed yet.
NoParsed ==
    [province |-> "", city |-> "", barangay |-> "", street_address |-> "",
     postal_code |-> ""]

\* AddressValidator._init_temp_data, with the keys later updates add at
\* the value .get() reads for a missing key.
init_temp_data ==
    [ structureOk |-> FALSE, psgcMatched |-> FALSE, geocodeMatched |-> FALSE,
      deliveryHistorySuccess |-> 0,
      province |-> "", city |-> "", barangay |-> "", streetAddress |-> "",
      postalCode |-> "", country |-> "PH",
      latitude |-> 0, longitude |-> 0, place_id |-> "",
      formattedAddress |-> NoText, geocodeFormattedAddress |-> NoText,
      region_id |-> NoCode, province_id |-> NoCode, city_id |-> NoCode,
      barangay_id |-> NoCode,
      reason |-> << >>, suggestion |-> << >>,
      deliveryHistory |-> NoDeliveryHistory,
      psgcApiValidated |-> TRUE,
      province_code |-> NoCode, city_code |-> NoCode, barangay_code |-> NoCode,
      parsed |-> NoParsed ]

\* STEP 1 of validate_address: the country of the address.  The result is
\* temp_data and whether validate_address returns at once.
country_validation(td, gmaps, av) ==
    LET reject(country, reason) ==
            [td EXCEPT !.country = country,
                       !.reason = Append(@, reason),
                       !.structureOk = FALSE,
                       !.geocodeMatched = FALSE,
                       !.psgcMatched = FALSE]
    IN  IF ~gmaps THEN [td |-> [td EXCEPT !.country = "PH"], return |-> FALSE]
        ELSE CASE av.isValid = "True" ->
                    [td |-> reject(av.country, NonPhReason(av.country)),
                     return |-> TRUE]
               [] av.isValid = "PH" ->
                    [td |-> [td EXCEPT !.country = "PH"], return |-> FALSE]
               [] av.isValid = "NOT_PH" ->
                    [td |-> IF Truthy(av.country)
                            THEN reject(av.country, NonPhReason(av.country))
                            ELSE reject("Unknown", NonPhUnknownReason),
                     return |-> TRUE]
               [] OTHER ->
                    [td |-> [td EXCEPT !.country = av.country],
                     return |-> FALSE]

\* STEP 2 of validate_address after the parser answered: the typo handler
\* on the parsed address, its suggestions, then the aliases.
correct_and_alias(td, provinces, name_variations, ok) ==
    LET corrected == apply_corrections(ValidatorMinScore, td.parsed, provinces,
                                       HandlerCities, name_variations, ok)
    IN  [td EXCEPT !.suggestion = @ \o corrected.suggestions,
                   !.parsed = apply_aliases(corrected.parsed)]

\* AddressValidator._validate_with_psgc_api and temp_data.update(result).
\* pm, cm and bm are what search_province, search_city_municipality and
\* search_barangay return.  The result carries the key "reason" when a
\* component was not found, and update() then replaces the list.
validate_with_psgc_api(td, pm, cm, bm) ==
    LET parsed == td.parsed
        province_missing == Truthy(parsed.province) /\ ~pm.found
        city_missing == Truthy(parsed.city) /\ ~cm.found
        barangay_missing == Truthy(parsed.barangay) /\ ~bm.found
        reason ==
            (IF province_missing
             THEN << NotFoundPsgcReason("Province", parsed.province) >>
             ELSE << >>) \o
            (IF city_missing
             THEN << NotFoundPsgcReason("City", parsed.city) >>
             ELSE << >>) \o
            (IF barangay_missing
             THEN << NotFoundPsgcReason("Barangay", parsed.barangay) >>
             ELSE << >>)
    IN  [td EXCEPT
           !.province = IF ~Truthy(parsed.province) THEN ""
                        ELSE IF pm.found THEN Title(pm.name)
                        ELSE Title(parsed.province),
           !.province_code = IF Truthy(parsed.province) /\ pm.found
                             THEN pm.code ELSE NoCode,
           !.city = IF ~Truthy(parsed.city) THEN ""
                    ELSE IF cm.found THEN Title(cm.name)
                    ELSE Title(parsed.city),
           !.city_code = IF Truthy(parsed.city) /\ cm.found
                         THEN cm.code ELSE NoCode,
           !.barangay = IF ~Truthy(parsed.barangay) THEN ""
                        ELSE IF bm.found THEN Title(bm.name)
                        ELSE Title(parsed.barangay),
           !.barangay_code = IF Truthy(parsed.barangay) /\ bm.found
                             THEN bm.code ELSE NoCode,
           !.streetAddress = parsed.street_address,
           !.postalCode = IF ~Truthy(parsed.postal_code)
                             /\ Truthy(parsed.city) /\ cm.found
                             /\ Truthy(cm.zip_code)
                          THEN cm.zip_code ELSE parsed.postal_code,
           !.psgcApiValidated = reason = << >>,
           !.reason = IF reason = << >> THEN @ ELSE reason]

\* "Postal code {postal} suggested from PhilAtlas for barangay {barangay}"
PostalSuggestedReason(postal, barangay) ==
    [kind |-> "postal_suggested", comp |-> postal, name |-> barangay]

\* AddressValidator._match_psgc_database and temp_data.update(result).
\* prow, crow are the rows of get_province_details and get_city_details,
\* postal what get_barangay_postal_code returns on a client that has it.
\* get_barangay_details is called with two arguments and defined with one
\* (TypeError); PhilAtlasClient has no get_barangay_postal_code
\* (AttributeError); neither is caught.  The result carries the key
\* "suggestion" when PhilAtlas gave a postal code, and update() then
\* replaces the list.
match_psgc_database(td, philatlas, prow, crow, postal) ==
    LET by_code == td.province_code # NoCode
        by_row == ~by_code /\ Truthy(td.province) /\ prow.found
        region_id == IF by_code THEN region_of(td.province_code)
                     ELSE IF by_row THEN prow.region_id ELSE NoCode
        province_id == IF by_code THEN td.province_code
                       ELSE IF by_row THEN prow.id ELSE NoCode
        city_id == IF td.city_code # NoCode THEN td.city_code
                   ELSE IF Truthy(td.city) /\ crow.found THEN crow.id
                   ELSE NoCode
        type_error == td.barangay_code = NoCode /\ Truthy(td.barangay)
        barangay_id == td.barangay_code
        lookup == ~Truthy(td.postalCode) /\ Truthy(td.city)
                  /\ Truthy(td.barangay) /\ philatlas # "None"
        attribute_error == lookup /\ philatlas = "PhilAtlasClient"
        suggested == lookup /\ Truthy(postal)
        psgc_codes_found == region_id # NoCode /\ province_id # NoCode
                            /\ city_id # NoCode /\ barangay_id # NoCode
    IN  IF type_error \/ attribute_error
        THEN [raised |-> TRUE, td |-> td]
        ELSE [raised |-> FALSE,
              td |-> [td EXCEPT
                        !.region_id = IF region_id # NoCode THEN region_id
                                      ELSE @,
                        !.province_id = IF province_id # NoCode
                                        THEN province_id ELSE @,
                        !.city_id = IF city_id # NoCode THEN city_id ELSE @,
                        !.barangay_id = IF barangay_id # NoCode
                                        THEN barangay_id ELSE @,
                        !.postalCode = IF suggested THEN postal ELSE @,
                        !.suggestion =
                            IF suggested
                            THEN << PostalSuggestedReason(postal,
                                                          td.barangay) >>
                            ELSE @,
                        !.psgcMatched = psgc_codes_found
                                        /\ td.psgcApiValidated]]

\* AddressValidator._format_ph_address under `if all([streetAddress,
\* barangay, city, province])`.  No street of the model ends in words of
\* the barangay, so the cleaned street is the street.
format_when_complete(td) ==
    IF Truthy(td.streetAddress) /\ Truthy(td.barangay) /\ Truthy(td.city)
       /\ Truthy(td.province)
    THEN [td EXCEPT
            !.formattedAddress =
                Text(td.streetAddress) \o Text(td.barangay) \o Text(td.city)
                \o Text(td.province) \o Text(td.postalCode) \o << "PH" >>,
            !.structureOk = TRUE]
    ELSE td

\* STEP 4 of validate_address and the formatting that closes the parsing
\* block.
match_and_format(td, db, philatlas, prow, crow, postal) ==
    LET matched == match_psgc_database(td, philatlas, prow, crow, postal)
    IN  IF ~db THEN [raised |-> FALSE, td |-> format_when_complete(td)]
        ELSE IF matched.raised THEN matched
        ELSE [raised |-> FALSE, td |-> format_when_complete(matched.td)]

\* AddressValidator._geocode_address for a PH address and
\* temp_data.update(geocode_result); g is what get_geocode returns.  The
\* result of a failed geocode carries the key "reason" with the one reason
\* of the geocoder, and update() replaces the list.
geocode_update(td, g) ==
    IF ~g.isValid
    THEN [td EXCEPT !.reason = << GeocodeReason(g.reason) >>,
                    !.geocodeMatched = FALSE]
    ELSE [td EXCEPT
            !.latitude = g.latitude, !.longitude = g.longitude,
            !.place_id = g.place_id,
            !.geocodeFormattedAddress = Text(g.formattedAddress),
            !.geocodeMatched = TRUE,
            !.city = IF ~Truthy(@) /\ Truthy(g.city) THEN g.city ELSE @,
            !.barangay = IF ~Truthy(@) /\ Truthy(g.barangay)
                         THEN g.barangay ELSE @,
            !.postalCode = IF ~Truthy(@) /\ Truthy(g.postalCode)
                           THEN g.postalCode ELSE @]

\* STEP 5 of validate_address: geocoding, and with a database and a city
\* or barangay filled in by the geocoder the second match, the second
\* PhilAtlas lookup (which appends its suggestion) and the formatting.
geocode_address_step(td, gmaps, db, philatlas, g, prow, crow, postal, again) ==
    LET geocoded == geocode_update(td, g)
        filled == g.isValid
                  /\ \/ (~Truthy(td.city) /\ Truthy(g.city))
                     \/ (~Truthy(td.barangay) /\ Truthy(g.barangay))
        matched == match_psgc_database(geocoded, philatlas, prow, crow, postal)
        m == matched.td
        lookup == ~Truthy(m.postalCode) /\ Truthy(m.barangay) /\ Truthy(m.city)
                  /\ philatlas # "None"
        looked_up ==
            IF lookup /\ Truthy(again)
            THEN [m EXCEPT !.postalCode = again,
                           !.suggestion =
                               Append(@, PostalSuggestedReason(again,
                                                               m.barangay))]
            ELSE m
    IN  IF ~(td.country \in {"PH", "NOT_PH"} /\ gmaps)
        THEN [raised |-> FALSE, td |-> td]
        ELSE IF ~(db /\ filled) THEN [raised |-> FALSE, td |-> geocoded]
        ELSE IF matched.raised \/ (lookup /\ philatlas = "PhilAtlasClient")
        THEN [raised |-> TRUE, td |-> td]
        ELSE [raised |-> FALSE, td |-> format_when_complete(looked_up)]

\* STEP 6: AddressValidator._check_delivery_history and
\* temp_data.update(delivery_history); oh and fh are the rows for the
\* incoming and the formatted address.
delivery_history_step(td, db, oh, fh) ==
    LET formatted_history == IF td.formattedAddress # NoText THEN fh
                             ELSE << >>
    IN  IF ~db THEN td
        ELSE [td EXCEPT
                !.deliveryHistorySuccess =
                    delivery_outcome(formatted_history,
                                     delivery_outcome(oh, 0)),
                !.deliveryHistory =
                    [inputStatus |-> first_status(oh),
                     formattedStatus |-> first_status(formatted_history)]]

\* A faulty AddressValidator._calculate_verdict: a rejected country does
\* not make the verdict invalid.
verdict_response_ignoring_rejection(td) ==
    LET delivery_success == td.deliveryHistorySuccess
        has_psgc_api_errors == AnyContains(td.reason, "not found in PSGC API")
        score == 50
                 + (IF delivery_success = 1 THEN 15
                    ELSE IF delivery_success = 0 THEN 0 ELSE -15)
                 + (IF td.structureOk THEN 20 ELSE -10)
                 + (IF td.psgcMatched THEN 10 ELSE -5)
                 + (IF td.geocodeMatched THEN 4 ELSE -2)
                 - (IF has_psgc_api_errors THEN 20 ELSE 0)
        confidence ==
            IF td.structureOk /\ td.psgcMatched /\ td.geocodeMatched
               /\ delivery_success = 1
            THEN 99
            ELSE IF ~td.structureOk /\ ~td.psgcMatched /\ ~td.geocodeMatched
                    /\ delivery_success <= 0
            THEN 0
            ELSE Max(0, Min(100, score))
        is_valid ==
            IF has_psgc_api_errors /\ delivery_success # 1 THEN FALSE
            ELSE td.structureOk \/ td.psgcMatched \/ td.geocodeMatched
                 \/ delivery_success = 1
    IN  [built |-> TRUE, isValid |-> is_valid,
         structureOk |-> td.structureOk, psgcMatched |-> td.psgcMatched,
         geocodeMatched |-> td.geocodeMatched,
         deliveryHistorySuccess |-> (delivery_success = 1),
         confidence |-> confidence,
         formattedAddress |-> td.formattedAddress,
         reason |-> td.reason, suggestions |-> td.suggestion]

\* AddressValidator._calculate_verdict and _build_response.
verdict_response(td) ==
    LET delivery_success == td.deliveryHistorySuccess
        is_non_ph_rejection ==
            AnyContains(td.reason, "only validate Philippine addresses")
        has_psgc_api_errors == AnyContains(td.reason, "not found in PSGC API")
        score == 50
                 + (IF delivery_success = 1 THEN 15
                    ELSE IF delivery_success = 0 THEN 0 ELSE -15)
                 + (IF td.structureOk THEN 20 ELSE -10)
                 + (IF td.psgcMatched THEN 10 ELSE -5)
                 + (IF td.geocodeMatched THEN 4 ELSE -2)
                 - (IF has_psgc_api_errors THEN 20 ELSE 0)
        confidence ==
            IF td.structureOk /\ td.psgcMatched /\ td.geocodeMatched
               /\ delivery_success = 1
            THEN 99
            ELSE IF ~td.structureOk /\ ~td.psgcMatched /\ ~td.geocodeMatched
                    /\ delivery_success <= 0
            THEN 0
            ELSE Max(0, Min(100, score))
        is_valid ==
            IF is_non_ph_rejection THEN FALSE
            ELSE IF has_psgc_api_errors /\ delivery_success # 1 THEN FALSE
            ELSE td.structureOk \/ td.psgcMatched \/ td.geocodeMatched
                 \/ delivery_success = 1
    IN  [built |-> TRUE, isValid |-> is_valid,
         structureOk |-> td.structureOk, psgcMatched |-> td.psgcMatched,
         geocodeMatched |-> td.geocodeMatched,
         deliveryHistorySuccess |-> (delivery_success = 1),
         confidence |-> confidence,
         formattedAddress |-> td.formattedAddress,
         reason |-> td.reason, suggestions |-> td.suggestion]

ValidatorInit ==
    /\ state = init_temp_data
    /\ pc = "country_validation"
    /\ gmaps_validator \in BOOLEAN
    /\ db_available \in BOOLEAN
    /\ philatlas_client \in PhilAtlasKinds
    /\ visited = << >>
    /\ response = NoResponse
    /\ tool = NoTool

\* A step of validate_address ran and left temp_data as `td`.
Stepped(step, td, next) ==
    /\ state' = td
    /\ pc' = next
    /\ visited' = Append(visited, step)
    /\ UNCHANGED << config, response, tool >>

\* validate_address returns the response built from temp_data.
Responded(step, td) ==
    /\ state' = td
    /\ pc' = "returned"
    /\ visited' = Append(visited, step)
    /\ response' = verdict_response(td)
    /\ UNCHANGED << config, tool >>

\* A call inside the step raised, and validate_address with it.
StepRaised(step) ==
    /\ pc' = "raised"
    /\ visited' = Append(visited, step)
    /\ UNCHANGED << state, config, response, tool >>

CountryValidation ==
    /\ pc = "country_validation"
    /\ \E av \in AddrValidationResults :
         LET r == country_validation(state, gmaps_validator, av)
         IN  IF r.return THEN Responded("country_validation", r.td)
             ELSE Stepped("country_validation", r.td,
                          IF r.td.country = "PH" THEN "parse" ELSE "geocode")

\* `parsed = await self.parser.parse(_incoming_address)`
Parse ==
    /\ pc = "parse"
    /\ \E parsed \in ValidatorParsed :
         Stepped("parse", [state EXCEPT !.parsed = parsed], "typo_corrections")

CorrectAndAlias ==
    /\ pc = "typo_corrections"
    /\ \E provinces \in HandlerProvinceLists, ok \in BOOLEAN :
         \E v \in VariationOrders(
                     correct_province_and_city(ValidatorMinScore, state.parsed,
                                               provinces, HandlerCities)
                        .parsed.city) :
            Stepped("typo_corrections",
                    correct_and_alias(state, provinces, v, ok), "psgc_api")

ValidateWithPsgcApi ==
    /\ pc = "psgc_api"
    /\ \E pm \in ProvinceMatches, cm \in CityMatches, bm \in BarangayMatches :
         Stepped("psgc_api", validate_with_psgc_api(state, pm, cm, bm),
                 "psgc_database")

MatchPsgcDatabase ==
    /\ pc = "psgc_database"
    /\ \E prow \in ProvinceRows, crow \in CityRows,
          postal \in PostalLookupResults :
         LET r == match_and_format(state, db_available, philatlas_client,
                                   prow, crow, postal)
         IN  IF r.raised THEN StepRaised("psgc_database")
             ELSE Stepped("psgc_database", r.td, "geocode")

GeocodeAddress ==
    /\ pc = "geocode"
    /\ \E g \in GeocodeResults, prow \in ProvinceRows, crow \in CityRows,
          postal \in PostalLookupResults, again \in PostalLookupResults :
         LET r == geocode_address_step(state, gmaps_validator, db_available,
                                       philatlas_client, g, prow, crow,
                                       postal, again)
         IN  IF r.raised THEN StepRaised("geocode")
             ELSE Stepped("geocode", r.td, "delivery_history")

DeliveryHistoryAndVerdict ==
    /\ pc = "delivery_history"
    /\ \E oh \in (IF db_available THEN Histories ELSE {<< >>}),
          fh \in (IF db_available /\ state.formattedAddress # NoText
                  THEN Histories ELSE {<< >>}) :
         Responded("delivery_history",
                   delivery_history_step(state, db_available, oh, fh))

ValidatorNext ==
    \/ CountryValidation
    \/ Parse
    \/ CorrectAndAlias
    \/ ValidateWithPsgcApi
    \/ MatchPsgcDatabase
    \/ GeocodeAddress
    \/ DeliveryHistoryAndVerdict

ValidatorSpec == ValidatorInit /\ [][ValidatorNext]_vars

(***************************************************************************)
(* Two requests on one AddressValidatorAgent.  Each call of                *)
(* validate_address builds its own initial_state and hands it to           *)
(* graph.ainvoke; the instance (clients, db_available, graph) is shared.   *)
(* In this specification state, pc, visited and response hold one entry    *)
(* per request, and `tool` holds the answers the collaborators give each   *)
(* request.                                                                *)
(***************************************************************************)
Requests == {1, 2}

\* The answers of the collaborators to the calls of one request.
Answers ==
    { [av |-> [isValid |-> "NOT_PH", country |-> "US"],
       parsed |-> [province |-> "", city |-> "", barangay |-> "",
                   street_address |-> "", postal_code |-> ""],
       pm |-> NoMatch, cm |-> NoMatch, bm |-> NoMatch,
       pl |-> << >>, cl |-> << >>, bl |-> << >>,
       prow |-> NoRow, crow |-> NoRow, brow |-> NoRow, postal |-> "",
       g |-> CHOOSE g \in GeocodeFailures : TRUE,
       oh |-> << >>, fh |-> << >>] }
    \cup
    { [av |-> [isValid |-> "PH", country |-> "PH"],
       parsed |-> [province |-> "Cavite", city |-> "Bacoor", barangay |-> b,
                   street_address |-> "12 Main St", postal_code |-> ""],
       pm |-> IF found THEN CHOOSE m \in PsgcProvinces : TRUE ELSE NoMatch,
       cm |-> IF found THEN CHOOSE m \in PsgcCities : TRUE ELSE NoMatch,
       bm |-> IF found THEN CHOOSE m \in PsgcBarangays : TRUE ELSE NoMatch,
       pl |-> << >>, cl |-> << >>, bl |-> << >>,
       prow |-> NoRow, crow |-> NoRow, brow |-> NoRow, postal |-> "4102",
       g |-> CHOOSE g \in GeocodeSuccesses :
                g.city = "Bacoor" /\ g.latitude = 14 /\ g.postalCode = "4100",
       oh |-> oh, fh |-> << >>] :
      b \in {"", "Molino"}, found \in BOOLEAN,
      oh \in { << >>, << "DELIVERED" >> } }

\* What one request holds: its state, the node due, the nodes that ran and
\* the response.
new_run ==
    [state |-> initial_state, pc |-> "initialize", visited |-> << >>,
     response |-> NoResponse]

\* The run after node `node` returned `ret` and the edge led to `next`.
ran(run, node, ret, next) ==
    [run EXCEPT !.state = add_reducer(ret), !.pc = next,
                !.visited = Append(@, node)]

\* One step of graph.ainvoke on a run: the node due runs on the run's state
\* with the answers `a`, and the edge out of it is followed; at "__end__"
\* validate_address builds the response.
node_step(run, gmaps, db, philatlas, a) ==
    LET st == run.state
        country == validate_country(st, gmaps, a.av)
        matched == match_psgc(st, db, philatlas, a.prow, a.crow, a.postal)
        geocoded == geocode_address(st, gmaps, db, a.g, a.crow, a.brow)
        delivery == check_delivery_history(st, db, a.oh, a.fh)
    IN  CASE run.pc = "initialize" ->
                ran(run, "initialize", initialize_state(st),
                    "validate_country")
          [] run.pc = "validate_country" ->
                ran(run, "validate_country", country,
                    IF route_after_country_check(add_reducer(country)) = "parse"
                    THEN "parse_address" ELSE "calculate_verdict")
          [] run.pc = "parse_address" ->
                ran(run, "parse_address", parse_address(st, a.parsed),
                    "apply_typo_corrections")
          [] run.pc = "apply_typo_corrections" ->
                ran(run, "apply_typo_corrections", apply_typo_corrections(st),
                    "validate_psgc_api")
          [] run.pc = "validate_psgc_api" ->
                ran(run, "validate_psgc_api",
                    validate_psgc_api(st, philatlas, a.pm, a.cm, a.bm,
                                      a.pl, a.cl, a.bl),
                    "match_psgc")
          [] run.pc = "match_psgc" ->
                IF matched.raised
                THEN [run EXCEPT !.pc = "raised",
                                 !.visited = Append(@, "match_psgc")]
                ELSE ran(run, "match_psgc", matched.st,
                         IF route_after_psgc(add_reducer(matched.st)) = "geocode"
                         THEN "geocode" ELSE "check_delivery")
          [] run.pc = "geocode" ->
                ran(run, "geocode", geocoded,
                    IF route_after_geocode(add_reducer(geocoded)) = "refine"
                    THEN "refine_with_geocode" ELSE "check_delivery")
          [] run.pc = "refine_with_geocode" ->
                ran(run, "refine_with_geocode",
                    refine_with_geocode(st, a.cm, a.bm), "check_delivery")
          [] run.pc = "check_delivery" ->
                ran(run, "check_delivery", delivery,
                    IF route_after_delivery(add_reducer(delivery)) = "retry"
                    THEN "retry_with_suggestions" ELSE "calculate_verdict")
          [] run.pc = "retry_with_suggestions" ->
                ran(run, "retry_with_suggestions",
                    retry_with_suggestions(st, a.cm, a.pm),
                    "calculate_verdict")
          [] run.pc = "calculate_verdict" ->
                ran(run, "calculate_verdict", calculate_verdict(st), "__end__")
          [] run.pc = "__end__" ->
                IF verdict_accepts(st.confidence)
                THEN [run EXCEPT !.response = build_response(st),
                                 !.pc = "returned"]
                ELSE [run EXCEPT !.pc = "raised"]
          [] OTHER -> run

\* The longest path through the graph, in steps of node_step.
MaxSteps == 13

\* validate_address run on its own with the answers `a`: node_step until
\* the call returned or raised.
RECURSIVE run_to_end(_, _, _, _, _, _)
run_to_end(run, gmaps, db, philatlas, a, fuel) ==
    IF run.pc \in {"returned", "raised"} \/ fuel = 0 THEN run
    ELSE run_to_end(node_step(run, gmaps, db, philatlas, a),
                    gmaps, db, philatlas, a, fuel - 1)

validate_address_alone(gmaps, db, philatlas, a) ==
    run_to_end(new_run, gmaps, db, philatlas, a, MaxSteps)

\* A faulty graph: the state is kept on the instance, so every request works
\* on the state of the first one.
instance_run(runs, r) == runs[1]

\* The run graph.ainvoke works on for request r: its own.
request_run(runs, r) == runs[r]

\* The runs of the requests, from the variables.
Runs2 ==
    [r \in Requests |->
        [state |-> state[r], pc |-> pc[r], visited |-> visited[r],
         response |-> response[r]]]

ConcInit ==
    /\ state = [r \in Requests |-> new_run.state]
    /\ pc = [r \in Requests |-> new_run.pc]
    /\ visited = [r \in Requests |-> new_run.visited]
    /\ response = [r \in Requests |-> new_run.response]
    /\ gmaps_validator \in BOOLEAN
    /\ db_available \in BOOLEAN
    /\ philatlas_client \in {"None", "WithPostalLookup"}
    /\ \E first \in Answers, second \in Answers :
          tool = [op |-> "requests", answers |-> << first, second >>]

\* The graph runs the node due for request r.
RequestStep(r) ==
    /\ pc[r] \notin {"returned", "raised"}
    /\ \E run \in { node_step(request_run(Runs2, r), gmaps_validator,
                                db_available, philatlas_client,
                                tool.answers[r]) } :
          /\ state' = [state EXCEPT ![r] = run.state]
          /\ pc' = [pc EXCEPT ![r] = run.pc]
          /\ visited' = [visited EXCEPT ![r] = run.visited]
          /\ response' = [response EXCEPT ![r] = run.response]
    /\ UNCHANGED << config, tool >>

FirstRequestStep == RequestStep(1)

SecondRequestStep == RequestStep(2)

ConcNext ==
    \/ FirstRequestStep
    \/ SecondRequestStep

ConcSpec == ConcInit /\ [][ConcNext]_vars

(***************************************************************************)
(* The two scorings side by side: AddressValidatorAgent._calculate_verdict *)
(* with _build_response, and AddressValidator._calculate_verdict, applied  *)
(* to the same flags, delivery outcome and reasons.  `tool` holds the      *)
(* inputs, then the two verdicts.                                          *)
(***************************************************************************)
\* Reason lists: none, a rejected country, a component found in no source,
\* a component verified by PhilAtlas only, and mixtures.
VerdictReasons ==
    { << >>,
      << NonPhUnknownReason >>,
      << NotFoundPsgcReason("City", "Xyz") >>,
      << VerifiedPhilAtlasReason("Province") >>,
      << NotFoundBothReason("City", "Xyz"), GeocodeReason("unsupported") >>,
      << NonPhReason("US"), NotFoundPsgcReason("Province", "Xyz") >> }

VerdictCalls ==
    { [op |-> "calculate_verdict", done |-> FALSE, structure_ok |-> s,
       psgc_matched |-> p, geocode_matched |-> g, delivery_success |-> d,
       reasons |-> r] :
        s \in BOOLEAN, p \in BOOLEAN, g \in BOOLEAN, d \in {-1, 0, 1},
        r \in VerdictReasons }

\* The ValidationState and the temp_data that carry the inputs of a call.
agent_state(call) ==
    [initial_state EXCEPT !.structure_ok = call.structure_ok,
                          !.psgc_matched = call.psgc_matched,
                          !.geocode_matched = call.geocode_matched,
                          !.delivery_history_success = call.delivery_success,
                          !.reasons = call.reasons]
validator_data(call) ==
    [init_temp_data EXCEPT !.structureOk = call.structure_ok,
                           !.psgcMatched = call.psgc_matched,
                           !.geocodeMatched = call.geocode_matched,
                           !.deliveryHistorySuccess = call.delivery_success,
                           !.reason = call.reasons]

VerdictInit ==
    /\ state = initial_state
    /\ pc = "tool"
    /\ gmaps_validator = FALSE
    /\ db_available = FALSE
    /\ philatlas_client = "None"
    /\ visited = << >>
    /\ response = NoResponse
    /\ tool \in VerdictCalls

\* The node calculate_verdict, the reducer and _build_response of the
\* graph; _calculate_verdict of the validator.
CalculateVerdicts ==
    /\ tool.op = "calculate_verdict" /\ ~tool.done
    /\ Returned([agent |-> build_response(
                               add_reducer(calculate_verdict(agent_state(tool)))),
                 validator |-> verdict_response(validator_data(tool))])

VerdictNext == CalculateVerdicts

VerdictSpec == VerdictInit /\ [][VerdictNext]_vars

(***************************************************************************)
(* The list caches of the PSGC client.  get_all_provinces and              *)
(* get_all_cities are decorated with @lru_cache(maxsize=1): one cache per  *)
(* method, keyed by the client object, holding the last returned list.     *)
(* `state` holds the two caches and whether psgc.cloud can be reached,     *)
(* `tool` the last search with its result.                                 *)
(***************************************************************************)
\* The PSGCAPIClient objects of a process: the one of the agent router and
\* the one of the validator router.
Clients == {"agent_validator", "validator"}

\* An empty cache.
NoEntry == [client |-> "none", data |-> << >>]

\* The body of get_all_provinces / get_all_cities: the list psgc.cloud
\* serves, [] when the request raises (the exception is caught).
fetch_provinces(reachable) == IF reachable THEN AllProvinces ELSE << >>
fetch_cities(reachable) == IF reachable THEN AllCities ELSE << >>

\* A call through @lru_cache(maxsize=1) by `client`: a hit returns the
\* list cached for that client; a miss runs the body, which returns
\* `fetched`, and the one entry of the cache becomes that result.
lru_cache(entry, client, fetched) ==
    IF entry.client = client THEN [entry |-> entry, value |-> entry.data]
    ELSE [entry |-> [client |-> client, data |-> fetched], value |-> fetched]

CacheInit ==
    /\ state = [provinces |-> NoEntry, cities |-> NoEntry, reachable |-> TRUE]
    /\ pc = "serving"
    /\ gmaps_validator = FALSE
    /\ db_available = FALSE
    /\ philatlas_client = "None"
    /\ visited = << >>
    /\ response = NoResponse
    /\ tool = NoTool

\* psgc.cloud stops answering; it answers again.
Outage ==
    /\ state.reachable
    /\ state' = [state EXCEPT !.reachable = FALSE]
    /\ UNCHANGED << pc, config, visited, response, tool >>

Recovery ==
    /\ ~state.reachable
    /\ state' = [state EXCEPT !.reachable = TRUE]
    /\ UNCHANGED << pc, config, visited, response, tool >>

\* A request has `client` search a province of the registry.
CachedSearchProvince ==
    \E client \in Clients, name \in {"Cavite", "Cebu"} :
       \E got \in { lru_cache(state.provinces, client,
                              fetch_provinces(state.reachable)) } :
          /\ state' = [state EXCEPT !.provinces = got.entry]
          /\ tool' = [op |-> "search_province", done |-> TRUE,
                      call |-> [client |-> client, name |-> name,
                                reachable |-> state.reachable],
                      result |-> search_province(name, got.value)]
          /\ UNCHANGED << pc, config, visited, response >>

\* A request has `client` search a city of the registry.
CachedSearchCity ==
    \E client \in Clients, name \in {"Bacoor", "Quezon City"} :
       \E got \in { lru_cache(state.cities, client,
                              fetch_cities(state.reachable)) },
          name_variations \in VariationOrders(name) :
          /\ state' = [state EXCEPT !.cities = got.entry]
          /\ tool' = [op |-> "search_city_municipality", done |-> TRUE,
                      call |-> [client |-> client, name |-> name,
                                reachable |-> state.reachable],
                      result |-> search_city_municipality(
                                     name, NoCode, got.value, name_variations)]
          /\ UNCHANGED << pc, config, visited, response >>

CacheNext ==
    \/ Outage
    \/ Recovery
    \/ CachedSearchProvince
    \/ CachedSearchCity

CacheSpec == CacheInit /\ [][CacheNext]_vars

(***************************************************************************)
(* Properties.                                                             *)
(***************************************************************************)
\* The request has returned its response.
Terminal == pc = "returned"

\* The node Score has run and the graph has ended.
Scored == pc = "__end__" \/ pc = "returned"

\* How many times node `n` ran.
Runs(n) == Cardinality({ i \in 1..Len(visited) : visited[i] = n })

\* The three flags of the state are all false.
NoFlag == ~state.structure_ok /\ ~state.psgc_matched /\ ~state.geocode_matched

\* Some reason of the list says that a component was not found in the
\* PSGC API; some reason is the rejection of a non-Philippine address.
HasPsgcApiError(reasons) ==
    \E i \in 1..Len(reasons) :
        reasons[i].kind \in {"not_found_psgc", "not_found_psgc_or_philatlas"}
HasRejection(reasons) ==
    \E i \in 1..Len(reasons) : reasons[i].kind \in {"non_ph", "non_ph_unknown"}

\* C1: the verdict's isValid is false if a country-mismatch reason is
\* present; else false if a 'not found in PSGC API' reason is present and
\* the delivery outcome is not positive; else true exactly when one of
\* structureOk, psgcMatched, geocodeMatched is true or the delivery outcome
\* is positive.
C1_IsValidRule ==
    Terminal =>
        response.isValid =
            IF HasRejection(response.reason) THEN FALSE
            ELSE IF HasPsgcApiError(response.reason)
                    /\ ~response.deliveryHistorySuccess
            THEN FALSE
            ELSE \/ response.structureOk
                 \/ response.psgcMatched
                 \/ response.geocodeMatched
                 \/ response.deliveryHistorySuccess

\* A verdict that is invalid by the PSGC API rule alone: a flag is true.
C1_Witness ==
    /\ Terminal
    /\ ~HasRejection(response.reason)
    /\ HasPsgcApiError(response.reason)
    /\ ~response.deliveryHistorySuccess
    /\ response.geocodeMatched
    /\ ~response.isValid

\* The confidence the specification gives for the flags, the delivery
\* outcome and the presence of a reference-validation error.
ExpectedConfidence(s, p, g, d, e) ==
    IF s /\ p /\ g /\ d = 1 THEN 99
    ELSE IF ~s /\ ~p /\ ~g /\ d <= 0 THEN 0
    ELSE LET sum == 50 + (CASE d = 1 -> 15 [] d = 0 -> 0 [] d = -1 -> -15)
                       + (IF s THEN 20 ELSE -10) + (IF p THEN 10 ELSE -5)
                       + (IF g THEN 4 ELSE -2) - (IF e THEN 20 ELSE 0)
         IN  IF sum < 0 THEN 0 ELSE IF sum > 100 THEN 100 ELSE sum

\* C2: after Score, confidence is 99 if the three flags are true and the
\* delivery outcome is +1, 0 if the three are false and the outcome is not
\* positive, and otherwise 50 plus the weights of the outcome and the flags,
\* minus 20 if a reference-validation error reason is present, clamped to
\* [0, 100].
C2_ConfidenceFormula ==
    Scored =>
        state.confidence =
            ExpectedConfidence(state.structure_ok, state.psgc_matched,
                               state.geocode_matched,
                               state.delivery_history_success,
                               HasPsgcApiError(state.reasons))

\* Score ran on a geocode match with a failed delivery and a PSGC API
\* error: 50 - 15 - 10 - 5 + 4 - 20.
C2_Witness ==
    /\ pc = "__end__"
    /\ state.geocode_matched /\ ~state.structure_ok /\ ~state.psgc_matched
    /\ state.delivery_history_success = -1
    /\ HasPsgcApiError(state.reasons)
    /\ state.confidence = 4

\* C3: in every terminal state the confidence of the verdict is within
\* [0, 100]; so is the confidence Score left in the state.
C3_ConfidenceRange ==
    /\ Scored => state.confidence >= 0 /\ state.confidence <= 100
    /\ Terminal => response.confidence >= 0 /\ response.confidence <= 100

\* A verdict whose weights add up to less than 0: nothing matched, the
\* delivery failed and a PSGC API error is present.
C3_Witness ==
    /\ Terminal
    /\ NoFlag
    /\ state.delivery_history_success = -1
    /\ HasPsgcApiError(state.reasons)
    /\ response.confidence = 0

\* C4: Retry runs only if the confidence is below 50, no flag is true, the
\* delivery outcome is not positive and there is a suggestion; it runs at
\* most once per request.
C4_RetryGuard ==
    /\ pc = "retry_with_suggestions" =>
          /\ state.confidence < 50
          /\ NoFlag
          /\ state.delivery_history_success # 1
          /\ Len(state.suggestions) >= 1
          /\ Runs("retry_with_suggestions") = 0
    /\ Runs("retry_with_suggestions") <= 1

\* A request on which Retry ran.
C4_Witness ==
    Terminal /\ Runs("retry_with_suggestions") = 1

\* C5: every request reaches Terminal, Score having run exactly once, as
\* the last node: a request that has not returned can take a step.
C5_ScoreOnceThenTerminal ==
    /\ Terminal \/ ENABLED Next
    /\ Terminal =>
          /\ Runs("calculate_verdict") = 1
          /\ visited[Len(visited)] = "calculate_verdict"

\* C6: when the detected country is not PH the rejection reason is
\* recorded and the request goes from the country check to Score, no other
\* node running; the verdict is invalid and its three flags are false.
C6_NonDomesticToScore ==
    state.country # "PH" =>
        /\ HasRejection(state.reasons)
        /\ \A i \in 1..Len(visited) :
              visited[i] \in {"initialize", "validate_country",
                              "calculate_verdict"}
        /\ pc \in {"calculate_verdict", "__end__", "returned"}
        /\ Terminal =>
              /\ ~response.isValid
              /\ ~response.structureOk
              /\ ~response.psgcMatched
              /\ ~response.geocodeMatched

\* A request for an address detected in the US has returned.
C6_Witness ==
    /\ Terminal
    /\ state.country = "US"
    /\ visited = << "initialize", "validate_country", "calculate_verdict" >>

\* C7: no stage raises, whatever the collaborators answer; in particular a
\* request whose barangay the PSGC API did not resolve, with the database
\* available or a PhilAtlas client configured, still returns a verdict.
C7_NoStageRaises ==
    /\ pc # "raised"
    /\ (/\ Terminal
        /\ Truthy(state.barangay)
        /\ state.barangay_code = NoCode)
       => ~db_available /\ philatlas_client # "PhilAtlasClient"

\* C8: a collaborator call that failed is absorbed like an empty answer,
\* and the request goes on to Score: once the PSGC API lookups are over
\* (a failed fetch of the barangay list leaves the barangay without a code,
\* as an unknown name does), the request has not raised.
C8_FailedCallAbsorbed ==
    (/\ Runs("validate_psgc_api") = 1
     /\ Truthy(state.barangay)
     /\ state.barangay_code = NoCode)
    => pc # "raised"

\* The position at which `x` is first met in `list`.
FirstAt(x, list) ==
    CHOOSE i \in 1..Len(list) :
        list[i] = x /\ \A j \in 1..(i - 1) : list[j] # x

\* `out` holds every entry of `list` once, in the order in which the
\* entries are first met in `list`.
FirstOccurrences(out, list) ==
    /\ \A i \in 1..Len(out) : InList(out[i], list)
    /\ \A i \in 1..Len(list) : InList(list[i], out)
    /\ \A i, j \in 1..Len(out) :
          i < j => out[i] # out[j] /\ FirstAt(out[i], list) < FirstAt(out[j], list)

\* C9: the reasons and the suggestions of the response hold no entry
\* twice, and keep the entries of the state in the order of their first
\* occurrence.
C9_NoDuplicates ==
    Terminal =>
        /\ FirstOccurrences(response.reason, state.reasons)
        /\ FirstOccurrences(response.suggestions, state.suggestions)

\* A response with two reasons, each of which the state holds many times,
\* and a suggestion.
C9_Witness ==
    /\ Terminal
    /\ Len(response.reason) >= 2
    /\ Len(state.reasons) > Len(response.reason)
    /\ Len(response.suggestions) = 1
    /\ Len(state.suggestions) > 1

\* The inputs of Score that differ from those of `st` in one flag or in
\* the delivery outcome, by one step up; by one step down.
OneStepUp(st) ==
    { [st EXCEPT !.structure_ok = TRUE], [st EXCEPT !.psgc_matched = TRUE],
      [st EXCEPT !.geocode_matched = TRUE],
      [st EXCEPT !.delivery_history_success = IF @ < 1 THEN @ + 1 ELSE @] }
OneStepDown(st) ==
    { [st EXCEPT !.structure_ok = FALSE], [st EXCEPT !.psgc_matched = FALSE],
      [st EXCEPT !.geocode_matched = FALSE],
      [st EXCEPT !.delivery_history_success = IF @ > -1 THEN @ - 1 ELSE @] }

\* C10: with the same reasons, raising one of the three flags or the
\* delivery outcome (-1 < 0 < +1) never lowers the confidence Score
\* computes, the cases of 0 and 99 included.
C10_Monotone ==
    Scored =>
        /\ \A up \in OneStepUp(state) :
              calculate_verdict(up).confidence >= state.confidence
        /\ \A down \in OneStepDown(state) :
              calculate_verdict(down).confidence <= state.confidence

\* Score gave 93, one step below the inputs that give 99: everything
\* matched but the geocode.
C10_Witness ==
    /\ pc = "__end__"
    /\ state.structure_ok /\ state.psgc_matched /\ ~state.geocode_matched
    /\ state.delivery_history_success = 1
    /\ state.confidence = 93

\* Node `n` is the node that ran last.
LastRan(n) == visited # << >> /\ visited[Len(visited)] = n

\* C11: after the PSGC match stage the next node is the delivery check
\* (geocoding skipped) exactly when province, city, barangay and postal
\* code are all non-empty and psgc_matched is true; otherwise it is Geocode.
C11_SkipGeocodeRule ==
    (LastRan("match_psgc") /\ pc # "raised") =>
        LET complete == /\ Truthy(state.province) /\ Truthy(state.city)
                        /\ Truthy(state.barangay) /\ Truthy(state.postal_code)
                        /\ state.psgc_matched
        IN  /\ pc \in {"geocode", "check_delivery"}
            /\ pc = "check_delivery" <=> complete
            /\ pc = "geocode" <=> ~complete

\* The PSGC match stage ended with everything resolved and geocoding is
\* skipped.
C11_Witness ==
    /\ LastRan("match_psgc")
    /\ pc = "check_delivery"
    /\ state.psgc_matched
    /\ Truthy(state.postal_code)

\* C12: after the Geocode stage the next node is Refine exactly when
\* geocoding succeeded with a nonzero coordinate and province, city and
\* barangay are not all present; otherwise it is the delivery check.
C12_RefineRule ==
    LastRan("geocode") =>
        LET refine == /\ state.geocode_matched
                      /\ (state.latitude # 0 \/ state.longitude # 0)
                      /\ \/ ~Truthy(state.province)
                         \/ ~Truthy(state.city)
                         \/ ~Truthy(state.barangay)
        IN  /\ pc \in {"refine_with_geocode", "check_delivery"}
            /\ pc = "refine_with_geocode" <=> refine
            /\ pc = "check_delivery" <=> ~refine

\* Geocoding succeeded with coordinates, the barangay is missing, and
\* Refine is the next node.
C12_Witness ==
    /\ LastRan("geocode")
    /\ pc = "refine_with_geocode"
    /\ state.geocode_matched
    /\ state.latitude # 0
    /\ ~Truthy(state.barangay)

\* C13: the Geocode stage and the Refine stage leave a city, barangay,
\* postal code or province that is non-empty before the stage as it is,
\* whatever the geocode result.
C13_NoOverwrite ==
    [][(pc = "geocode" \/ pc = "refine_with_geocode") =>
          (\A f \in {"city", "barangay", "postal_code", "province"} :
              state[f] # "" => state'[f] = state[f])]_vars

\* Geocode ran on a state that held a city and a postal code, and its
\* result named another city and another postal code.
C13_Witness ==
    /\ LastRan("geocode")
    /\ state.geocode_matched
    /\ Truthy(state.geocode_city) /\ Truthy(state.city)
    /\ state.city # state.geocode_city
    /\ Truthy(state.geocode_postal) /\ Truthy(state.postal_code)
    /\ state.postal_code # state.geocode_postal

\* The resolve stage looked the city up: it left a city code or a reason
\* about the city.
CityLookedUp ==
    \/ state.city_code # NoCode
    \/ \E i \in 1..Len(state.reasons) : state.reasons[i].comp = "City"

\* C14: a city the geocode result filled in (the resolve stage had no city
\* to look up, and the city of the state is the city of the geocode result)
\* is looked up in the PSGC API afterwards, so that the request ends with
\* the city code of "Bacoor", a name psgc.cloud lists.
C14_FilledCityResolved ==
    (/\ Scored
     /\ Runs("geocode") = 1
     /\ state.geocode_city = "Bacoor"
     /\ state.city = state.geocode_city)
    => CityLookedUp

\* A finished call of `op`.
Called(op) == tool.op = op /\ tool.done

\* What the hierarchy tool resolved for the call it finished.
ToolProvince == search_province(tool.call.province, AllProvinces)
ToolCity == search_city_municipality(tool.call.city, ToolProvince.code,
                                     AllCities, tool.call.name_variations)
ToolBarangay ==
    search_barangay(tool.call.barangay, ToolCity.code,
                    barangays_of(ToolCity.code, tool.call.ok),
                    tool.call.directory)

\* C15: when verify_geographic_hierarchy reports hierarchy_valid = true,
\* province, city and barangay are each resolved, the city's code lies
\* under the province's code and the barangay's code under the city's.
C15_HierarchyValidSound ==
    (Called("verify_geographic_hierarchy") /\ tool.result.hierarchy_valid) =>
        /\ ToolProvince.found /\ ToolCity.found /\ ToolBarangay.found
        /\ StartsWith(ToolCity.code, Take(ToolProvince.code, 4))
        /\ StartsWith(ToolBarangay.code, Take(ToolCity.code, 6))

\* C16: search_city_municipality(name, province_code) with a province code
\* returns the match among the cities under that province when there is
\* one, and otherwise exactly what the nationwide search returns, so that
\* it finds nothing only when the nationwide search finds nothing.
C16_ScopedThenNationwide ==
    (Called("search_city_municipality")
     /\ tool.call.name # "" /\ tool.call.province_code # NoCode) =>
        LET scoped == scoped_city_search(tool.call.name,
                                         tool.call.province_code,
                                         tool.call.all_locations,
                                         tool.call.name_variations)
            unscoped == nationwide_city_search(tool.call.name,
                                               tool.call.all_locations,
                                               tool.call.name_variations)
        IN  /\ scoped.found =>
                /\ tool.result = scoped
                /\ StartsWith(tool.result.code,
                              Take(tool.call.province_code, 4))
            /\ ~scoped.found => tool.result = unscoped
            /\ ~tool.result.found => ~unscoped.found

\* A search scoped to a province found nothing there and returned the city
\* the nationwide search found.
C16_Witness ==
    /\ Called("search_city_municipality")
    /\ tool.call.province_code # NoCode
    /\ ~scoped_city_search(tool.call.name, tool.call.province_code,
                           tool.call.all_locations,
                           tool.call.name_variations).found
    /\ tool.result.found
    /\ ~StartsWith(tool.result.code, Take(tool.call.province_code, 4))

\* C17: search_barangay without a city code resolves no barangay.
C17_NoCityNoBarangay ==
    (Called("search_barangay") /\ tool.call.city_municipality_code = NoCode)
        => ~tool.result.found

\* The reasons a node's return value `ret` adds to those of `st`.
AddedReasons(st, ret) ==
    SubSeq(ret.reasons, Len(st.reasons) + 1, Len(ret.reasons))

\* In the return value `ret` of the resolve stage run on `st`, the
\* component `comp` that the PSGC API matched with `match` carries the
\* name and the code of that match and no PhilAtlas verification, and a
\* PhilAtlas verification is recorded only for a component the PSGC API
\* did not match.
PrimaryKept(st, ret, comp, field, code_field, match) ==
    /\ (Truthy(st[field]) /\ match.found) =>
          /\ ret[field] = Title(match.name)
          /\ ret[code_field] = match.code
          /\ ~InList(VerifiedPhilAtlasReason(comp), AddedReasons(st, ret))
    /\ InList(VerifiedPhilAtlasReason(comp), AddedReasons(st, ret)) =>
          /\ ~match.found
          /\ ret[code_field] = st[code_field]

\* C18: in the resolve stage, whatever the PSGC API and PhilAtlas answer,
\* PhilAtlas decides a component only when the PSGC API returned no match
\* for it, and a component the PSGC API matched keeps the PSGC name and
\* code.
C18_PrimaryBeforeSecondary ==
    [][pc = "validate_psgc_api" =>
         (\A pm \in ProvinceMatches, cm \in CityMatches,
             bm \in BarangayMatches, pl \in PhilAtlasProvinceLists,
             cl \in PhilAtlasCityLists, bl \in PhilAtlasBarangayLists :
            LET ret == validate_psgc_api(state, philatlas_client,
                                         pm, cm, bm, pl, cl, bl)
            IN  (state' = add_reducer(ret)) =>
                  /\ PrimaryKept(state, ret, "Province", "province",
                                 "province_code", pm)
                  /\ PrimaryKept(state, ret, "City", "city", "city_code", cm)
                  /\ PrimaryKept(state, ret, "Barangay", "barangay",
                                 "barangay_code", bm))]_vars

\* The resolve stage ran with a PhilAtlas client: the PSGC API matched the
\* province, and the city, which it did not match, was verified by
\* PhilAtlas.
C18_Witness ==
    /\ LastRan("validate_psgc_api")
    /\ philatlas_client # "None"
    /\ state.province_code # NoCode
    /\ state.city_code = NoCode
    /\ InList(VerifiedPhilAtlasReason("City"), state.reasons)
    /\ ~InList(VerifiedPhilAtlasReason("Province"), state.reasons)

\* The PSGC API matched province, city and barangay of the request.
AllResolved ==
    /\ state.province_code # NoCode
    /\ state.city_code # NoCode
    /\ state.barangay_code # NoCode

\* C19: a request with a street address whose province, city and barangay
\* are all found in the PSGC API, for which the geocode provider is
\* available and succeeds whenever it is asked, and whose most recent
\* delivery record is DELIVERED, gets confidence 99 and isValid = true.
C19_FullMatchScores99 ==
    (/\ Terminal
     /\ Truthy(state.street_address)
     /\ AllResolved
     /\ gmaps_validator
     /\ (Runs("geocode") > 0 => state.geocode_matched)
     /\ state.delivery_history_success = 1)
        => (response.confidence = 99 /\ response.isValid)

\* No reference source resolved a component of the request: no PSGC code,
\* no row of the database, no verification by PhilAtlas.
NothingResolved ==
    /\ state.province_code = NoCode /\ state.city_code = NoCode
    /\ state.barangay_code = NoCode
    /\ state.region_id = NoCode /\ state.province_id = NoCode
    /\ state.city_id = NoCode /\ state.barangay_id = NoCode
    /\ \A c \in {"Province", "City", "Barangay"} :
          ~InList(VerifiedPhilAtlasReason(c), state.reasons)

\* C20: a request none of whose components is resolved by any reference
\* source, with no geocode result and no delivery history, gets
\* confidence 0 and isValid = false, whatever the parser supplied.
C20_NothingResolvesScoresZero ==
    (/\ Terminal
     /\ NothingResolved
     /\ ~state.geocode_matched
     /\ state.delivery_history = NoDeliveryHistory
     /\ state.delivery_history_success = 0)
        => (response.confidence = 0 /\ ~response.isValid)

\* Request r ended: validate_address returned or raised.
Ended(r) == pc[r] \in {"returned", "raised"}

\* What request r would get on its own from the same answers.
Alone(r) ==
    validate_address_alone(gmaps_validator, db_available, philatlas_client,
                           tool.answers[r])

IsBestOf(scores, threshold, f) ==
    /\ f \in 0..Len(scores)
    /\ f # 0 =>
          /\ scores[f] >= threshold
          /\ \A j \in 1..Len(scores) : scores[j] <= scores[f]
          /\ \A j \in 1..(f - 1) : scores[j] < scores[f]
    /\ f = 0 => \A j \in 1..Len(scores) : scores[j] < threshold

C25_FuzzyMatchScore ==
    Called("fuzzy_match") =>
       LET query_norm == normalize_for_matching(tool.call.query)
           target_norm == normalize_for_matching(tool.call.target)
       IN  /\ tool.result \in 0..10000
           /\ tool.call.query = tool.call.target => tool.result = 10000
           /\ (\/ IsSubstring(query_norm, target_norm)
               \/ IsSubstring(target_norm, query_norm)) =>
                 tool.result >= SubstringBoost

\* "baco" against "Bacolod City": neither ratio reaches 0.85, the contained
\* text does.
C25_Witness ==
    /\ Called("fuzzy_match")
    /\ tool.call.query # tool.call.target
    /\ IsSubstring(normalize_for_matching(tool.call.query),
                   normalize_for_matching(tool.call.target))
    /\ matcher_ratio(normalize_for_matching(tool.call.query),
                     normalize_for_matching(tool.call.target)) < SubstringBoost
    /\ tool.result = SubstringBoost

\* The status of the most recent row of a history, "" without rows.
MostRecent(history) == IF history = << >> THEN "" ELSE Head(history)

\* C28: with a delivery store, the delivery outcome is +1 when the most
\* recent row for the formatted address is DELIVERED and -1 when it is
\* RETURN TO SENDER; otherwise it is read the same way from the most recent
\* row for the original cleaned address; and it is 0 when neither row has
\* one of the two statuses.  Rows after the first never matter.
C28_DeliveryFromFirstRecord ==
    (Called("check_delivery_history") /\ tool.call.db) =>
       LET formatted == IF tool.call.formatted_address # NoText
                        THEN MostRecent(tool.call.formatted_history)
                        ELSE ""
           original == MostRecent(tool.call.original_history)
       IN  tool.result.delivery_history_success =
              CASE formatted = "DELIVERED" -> 1
                [] formatted = "RETURN TO SENDER" -> -1
                [] original = "DELIVERED" -> 1
                [] original = "RETURN TO SENDER" -> -1
                [] OTHER -> 0

\* The formatted address was last seen in transit and delivered before
\* that; the original address was last returned and delivered before that:
\* the outcome is -1.
C28_Witness ==
    /\ Called("check_delivery_history") /\ tool.call.db
    /\ tool.call.formatted_address # NoText
    /\ tool.call.formatted_history = << "IN TRANSIT", "DELIVERED" >>
    /\ tool.call.original_history = << "RETURN TO SENDER", "DELIVERED" >>
    /\ tool.result.delivery_history_success = -1

ParsedOf(st) ==
    [province |-> st.province, city |-> st.city, barangay |-> st.barangay,
     street_address |-> st.street_address, postal_code |-> st.postal_code]

\* What the smart typo handler returns for the names of the state, for one
\* order of the city-name variations and one outcome of the barangay fetch.
HandlerCorrected(st, ok) ==
    LET city == correct_province_and_city(AgentMinScore, ParsedOf(st),
                                          AllProvinces, HandlerCities)
                   .parsed.city
    IN  { apply_corrections(AgentMinScore, ParsedOf(st), AllProvinces,
                            HandlerCities, v, ok).parsed :
            v \in VariationOrders(city) }

\* C29: when the TypoCorrect stage of the graph ends, province, city and
\* barangay of the state are the names the smart typo handler returned:
\* the corrected name where it corrected one, the name as it was where it
\* did not.
C29_TypoCorrectionsApplied ==
    [][pc = "apply_typo_corrections" =>
          \A ok \in BOOLEAN : \A corrected \in HandlerCorrected(state, ok) :
              /\ state'.province = corrected.province
              /\ state'.city = corrected.city
              /\ state'.barangay = corrected.barangay]_vars

\* The parser answered with a province that is a key of PROVINCE_ALIASES
\* but for case.
IsAliasKey(province) ==
    Truthy(province) /\ Lower(province) \in DOMAIN PROVINCE_ALIASES

\* C26: a parsed province that equals a key of the alias table but for case
\* leaves the parsing step of AddressValidator.validate_address as the
\* alias target, whatever the typo handler finds in the reference lists:
\* the alias lookup comes before a fuzzy correction can replace the name.
C26_AliasBeforeCorrection ==
    [][(pc = "typo_corrections" /\ IsAliasKey(state.parsed.province)) =>
          state'.parsed.province =
             Title(PROVINCE_ALIASES[Lower(state.parsed.province)])]_vars

\* Every entry of `list` of the given kind is an entry of `later`.
KeptOfKind(kind, list, later) ==
    \A i \in 1..Len(list) : list[i].kind = kind => InList(list[i], later)

\* C27: in AddressValidator.validate_address the reasons of the reference
\* validation ("... not found in PSGC API") and the suggestions of the typo
\* handler stay in temp_data through the database match, the geocoding and
\* the delivery check, and are in the response, also when geocoding fails
\* and records its own reason.
C27_ReasonsAndSuggestionsKept ==
    [][(pc \in {"psgc_database", "geocode", "delivery_history"}
        /\ pc' # "raised") =>
          /\ KeptOfKind("not_found_psgc", state.reason, state'.reason)
          /\ KeptOfKind("city_standardized", state.suggestion,
                        state'.suggestion)
          /\ response'.built =>
                /\ KeptOfKind("not_found_psgc", state.reason, response'.reason)
                /\ KeptOfKind("city_standardized", state.suggestion,
                              response'.suggestions)]_vars

\* C31: as long as the Geocode stage has not run in a request (it is
\* skipped after a complete reference match, and never reached for another
\* country), geocode_matched is false and the coordinates are zero; the
\* confidence Score gives such a request is at most 93, and so is the
\* confidence of its verdict, whose geocodeMatched is false.
C31_SkippedGeocodeAtMost93 ==
    Runs("geocode") = 0 =>
        /\ ~state.geocode_matched
        /\ state.latitude = 0 /\ state.longitude = 0
        /\ Scored => state.confidence <= 93
        /\ Terminal => /\ ~response.geocodeMatched
                       /\ response.confidence <= 93

\* A verdict for a request whose four components the reference source
\* resolved, so that Geocode was skipped, with a delivered parcel: 93.
C31_Witness ==
    /\ Terminal
    /\ Runs("match_psgc") = 1 /\ Runs("geocode") = 0
    /\ response.psgcMatched /\ response.structureOk
    /\ response.deliveryHistorySuccess
    /\ Truthy(state.postal_code)
    /\ response.confidence = 93

\* The fields of the address data C32 speaks of.
AddressData ==
    {"city", "barangay", "postal_code", "city_code", "barangay_code",
     "formatted_address", "structure_ok"}

C33_MatchedMeansAllValidated ==
    (Terminal /\ response.psgcMatched) =>
        /\ state.region_id # NoCode /\ state.province_id # NoCode
        /\ state.city_id # NoCode /\ state.barangay_id # NoCode
        /\ ~HasPsgcApiError(response.reason)

\* C34: once the country check has recorded the rejection reason "We only
\* validate Philippine addresses ...", the next node is Score and no node
\* but initialize, the country check and Score runs in the request,
\* whatever get_address_country returned.
C34_RejectionSkipsPipeline ==
    HasRejection(state.reasons) =>
        /\ pc \in {"calculate_verdict", "__end__", "returned"}
        /\ \A i \in 1..Len(visited) :
              visited[i] \in {"initialize", "validate_country",
                              "calculate_verdict"}

\* C35: a search of a name of the registry made while psgc.cloud can be
\* reached finds the name, also after an earlier fetch of the list failed:
\* the failure is not kept by the cache of get_all_provinces or
\* get_all_cities.
C35_FailedFetchNotRetained ==
    (tool.op # "none" /\ tool.call.reachable) => tool.result.found

\* C36: a search for a non-empty name whose form for matching is the
\* empty text (a name of punctuation only) finds nothing: search_province
\* and search_city_municipality return no fuzzy match for it.
C36_EmptyNormalizedQueryNotFound ==
    (/\ tool.op \in {"search_province", "search_city_municipality"}
     /\ tool.done
     /\ tool.call.name # ""
     /\ normalize_for_matching(tool.call.name) = "") => ~tool.result.found

\* The verdicts of a finished scoring call are there.
VerdictsDone == tool.op = "calculate_verdict" /\ tool.done

\* C37: for the same structureOk, referenceMatched, geocodeMatched,
\* delivery outcome and reasons, AddressValidator._calculate_verdict and
\* the graph (_calculate_verdict with _build_response) give the same
\* confidence and the same isValid.
C37_OrchestratorsAgreeOnScoring ==
    VerdictsDone =>
        /\ tool.result.agent.confidence = tool.result.validator.confidence
        /\ tool.result.agent.isValid = tool.result.validator.isValid

\* Both verdicts are computed for a rejected country with a 'not found'
\* reason, true flags and a delivered parcel: confidence 99, not valid.
C37_Witness ==
    /\ VerdictsDone
    /\ Len(tool.call.reasons) = 2 /\ HasRejection(tool.call.reasons)
    /\ tool.call.structure_ok /\ tool.call.psgc_matched
    /\ tool.call.geocode_matched /\ tool.call.delivery_success = 1
    /\ tool.result.agent.confidence = 99
    /\ ~tool.result.validator.isValid

\* The sum of the 'otherwise' branch before the clamp.
UnclampedScore(call) ==
    50 + (IF call.delivery_success = 1 THEN 15
          ELSE IF call.delivery_success = 0 THEN 0 ELSE -15)
       + (IF call.structure_ok THEN 20 ELSE -10)
       + (IF call.psgc_matched THEN 10 ELSE -5)
       + (IF call.geocode_matched THEN 4 ELSE -2)
       - (IF HasPsgcApiError(call.reasons) THEN 20 ELSE 0)

\* Neither the all-positive nor the all-negative case.
OtherwiseBranch(call) ==
    /\ ~(/\ call.structure_ok /\ call.psgc_matched /\ call.geocode_matched
         /\ call.delivery_success = 1)
    /\ ~(/\ ~call.structure_ok /\ ~call.psgc_matched /\ ~call.geocode_matched
         /\ call.delivery_success <= 0)

\* C38: a confidence is 0, 99 or an integer of 4..93, so never above 99;
\* in the 'otherwise' branch it is the unclamped sum, which lies in 4..93.
C38_ConfidenceRange ==
    VerdictsDone =>
        /\ tool.result.agent.confidence \in {0, 99} \cup (4..93)
        /\ OtherwiseBranch(tool.call) =>
              /\ tool.result.agent.confidence = UnclampedScore(tool.call)
              /\ UnclampedScore(tool.call) \in 4..93

\* The upper end of the 'otherwise' range: all but the geocode match.
C38_Witness ==
    /\ VerdictsDone
    /\ OtherwiseBranch(tool.call)
    /\ tool.result.agent.confidence = 93
    /\ tool.call.structure_ok /\ ~tool.call.geocode_matched

\* C39: a valid verdict has confidence at least 24; the confidence is 0
\* exactly when no flag is true and the delivery outcome is not positive,
\* and then the verdict is not valid.
C39_ValidityMatchesConfidence ==
    VerdictsDone =>
        /\ tool.result.agent.isValid => tool.result.agent.confidence >= 24
        /\ tool.result.agent.confidence = 0 <=>
              /\ ~tool.call.structure_ok /\ ~tool.call.psgc_matched
              /\ ~tool.call.geocode_matched /\ tool.call.delivery_success <= 0
        /\ tool.result.agent.confidence = 0 => ~tool.result.agent.isValid

\* The least confident valid verdict: only the geocode matched and the
\* delivery failed.
C39_Witness ==
    /\ VerdictsDone
    /\ tool.result.agent.isValid
    /\ tool.result.agent.confidence = 24
    /\ tool.call.geocode_matched /\ tool.call.delivery_success = -1

=============================================================================
